---- MODULE Spec2Model ----
(***************************************************************************)
(* A model of the UI Bridge SWC plugin: the configuration model            *)
(* (config.rs), descriptor extraction (text_extractor.rs), the identifier  *)
(* generator (id_generator.rs), the alias generator (alias_generator.rs),  *)
(* the traversal engine (visitor.rs) and the plugin entry point (lib.rs),  *)
(* and of the runtime registry of the example application (main.rs).       *)
(*                                                                         *)
(* A Rust String is a sequence of characters, each character a one-element *)
(* TLA+ string.  Option<T> is a sequence of length 0 (None) or 1 (Some).   *)
(***************************************************************************)
EXTENDS Integers, Sequences, FiniteSets, TLC

VARIABLES
    unit,       \* per pass: the source unit handed to process_transform (a token sequence)
    options,    \* per pass: the plugin options handed over by the host
    filename,   \* per pass: the file name in the host's metadata (an Option)
    walk,       \* per pass: the state of the walk (phase, pc, frames, attrs, log, stderr)
    visitor,    \* per visitor instance: component_stack, element_counters, processed_ids
    call,       \* a call of one pure function: its name and arguments
    ret,        \* the value the call returned (None before it returns)
    elements,   \* the runtime registry: AppState.elements, a Vec<RegisteredElement>
    lock,       \* the RwLock around it: the task writing (0 when none) and the tasks reading
    task,       \* per task of the runtime: the request it serves, where it stands, its reply
    registered, \* per identifier: the registration in effect (None when there is none)
    window      \* AppState.window, an Option: a window is the events emitted to it

passVars == <<unit, options, filename, walk, visitor>>
regVars == <<elements, lock, task, registered, window>>
vars == <<unit, options, filename, walk, visitor, call, ret, elements, lock, task, registered,
          window>>

----------------------------------------------------------------------------
(* Option<T> *)

None == << >>
Some(v) == << v >>
IsSome(o) == Len(o) = 1
IsNone(o) == Len(o) = 0
Unwrap(o) == o[1]
\* Option::or
OptOr(a, b) == IF IsSome(a) THEN a ELSE b

----------------------------------------------------------------------------
(* Characters.  Besides ASCII the alphabet holds U+0130 (capital I with    *)
(* dot above), whose lowercase form is the two characters "i" U+0307, and  *)
(* U+0307 itself (a combining mark: neither a letter nor whitespace).      *)

LowerLetters == <<"a", "b", "c", "d", "e", "f", "g", "h", "i", "j", "k", "l", "m",
                  "n", "o", "p", "q", "r", "s", "t", "u", "v", "w", "x", "y", "z">>
UpperLetters == <<"A", "B", "C", "D", "E", "F", "G", "H", "I", "J", "K", "L", "M",
                  "N", "O", "P", "Q", "R", "S", "T", "U", "V", "W", "X", "Y", "Z">>
DigitChars == <<"0", "1", "2", "3", "4", "5", "6", "7", "8", "9">>
OtherChars == <<" ", "\t", "\n", "-", "_", ".", ",", "!", "@", "#", "$", "/", "\\",
                "U+0130", "U+0307">>
AllChars == LowerLetters \o UpperLetters \o DigitChars \o OtherChars

Range(f) == { f[i] : i \in DOMAIN f }
IndexOf(seq, c) == CHOOSE i \in DOMAIN seq : seq[i] = c

\* char::is_uppercase, char::is_lowercase, char::is_alphanumeric, char::is_whitespace
IsUppercase(c) == c \in Range(UpperLetters) \cup {"U+0130"}
IsLowercase(c) == c \in Range(LowerLetters)
IsAlphanumeric(c) == c \in Range(LowerLetters) \cup Range(UpperLetters)
                             \cup Range(DigitChars) \cup {"U+0130"}
IsWhitespace(c) == c \in {" ", "\t", "\n"}

\* char::to_lowercase: an iterator of one or more characters
CharToLowercase(c) ==
    IF c \in Range(UpperLetters) THEN << LowerLetters[IndexOf(UpperLetters, c)] >>
    ELSE IF c = "U+0130" THEN << "i", "U+0307" >>
    ELSE << c >>

\* str::to_lowercase
RECURSIVE ToLowercase(_)
ToLowercase(s) ==
    IF s = << >> THEN << >> ELSE CharToLowercase(Head(s)) \o ToLowercase(Tail(s))

Last(s) == s[Len(s)]
EndsWith(s, c) == s /= << >> /\ Last(s) = c
\* str::contains
Contains(s, t) ==
    \E i \in 0 .. (Len(s) - Len(t)) : SubSeq(s, i + 1, i + Len(t)) = t

\* str::trim
RECURSIVE TrimStart(_)
TrimStart(s) ==
    IF s /= << >> /\ IsWhitespace(Head(s)) THEN TrimStart(Tail(s)) ELSE s
RECURSIVE TrimEnd(_)
TrimEnd(s) ==
    IF s /= << >> /\ IsWhitespace(Last(s)) THEN TrimEnd(SubSeq(s, 1, Len(s) - 1)) ELSE s
Trim(s) == TrimEnd(TrimStart(s))

\* str::split_whitespace: the maximal runs of non-whitespace, in order
RECURSIVE SplitAcc(_, _, _)
SplitAcc(s, word, words) ==
    IF s = << >> THEN (IF word = << >> THEN words ELSE Append(words, word))
    ELSE IF IsWhitespace(Head(s))
         THEN SplitAcc(Tail(s), << >>, IF word = << >> THEN words ELSE Append(words, word))
         ELSE SplitAcc(Tail(s), Append(word, Head(s)), words)
SplitWhitespace(s) == SplitAcc(s, << >>, << >>)

\* [String]::join
RECURSIVE Join(_, _)
Join(parts, sep) ==
    IF parts = << >> THEN << >>
    ELSE IF Len(parts) = 1 THEN parts[1]
    ELSE parts[1] \o sep \o Join(Tail(parts), sep)

\* Iterator::take, Vec::truncate
Take(s, n) == SubSeq(s, 1, IF n < Len(s) THEN n ELSE Len(s))
\* Iterator::map, Iterator::filter over the characters of a string
RECURSIVE MapNonAlnumToSpace(_)
MapNonAlnumToSpace(s) ==
    IF s = << >> THEN << >>
    ELSE << (IF IsAlphanumeric(Head(s)) THEN Head(s) ELSE " ") >> \o MapNonAlnumToSpace(Tail(s))
RECURSIVE FilterAlnumOrSpace(_)
FilterAlnumOrSpace(s) ==
    IF s = << >> THEN << >>
    ELSE (IF IsAlphanumeric(Head(s)) \/ IsWhitespace(Head(s)) THEN << Head(s) >> ELSE << >>)
         \o FilterAlnumOrSpace(Tail(s))
\* Vec::contains
SeqContains(seq, x) == \E i \in DOMAIN seq : seq[i] = x

\* usize formatted by {} (decimal, no padding)
RECURSIVE ToDecimal(_)
ToDecimal(n) ==
    IF n < 10 THEN << DigitChars[n + 1] >>
    ELSE ToDecimal(n \div 10) \o << DigitChars[(n % 10) + 1] >>

----------------------------------------------------------------------------
(* config.rs *)

s_ui == <<"u", "i">>
s_unknown == <<"u", "n", "k", "n", "o", "w", "n">>
t_button == <<"b", "u", "t", "t", "o", "n">>
t_input == <<"i", "n", "p", "u", "t">>
t_select == <<"s", "e", "l", "e", "c", "t">>
t_textarea == <<"t", "e", "x", "t", "a", "r", "e", "a">>
t_a == <<"a">>
t_form == <<"f", "o", "r", "m">>

default_elements == << t_button, t_input, t_select, t_textarea, t_a, t_form >>
default_id_prefix == s_ui
default_id_attribute == <<"d", "a", "t", "a", "-", "u", "i", "-", "i", "d">>
default_aliases_attribute == <<"d", "a", "t", "a", "-", "u", "i", "-", "a", "l", "i", "a", "s", "e", "s">>
default_type_attribute == <<"d", "a", "t", "a", "-", "u", "i", "-", "t", "y", "p", "e">>
default_true == TRUE
default_max_aliases == 5

\* impl Default for PluginConfig
DefaultConfig ==
    [ elements |-> default_elements,
      id_prefix |-> default_id_prefix,
      id_attribute |-> default_id_attribute,
      aliases_attribute |-> default_aliases_attribute,
      type_attribute |-> default_type_attribute,
      generate_aliases |-> TRUE,
      include_component_name |-> TRUE,
      include_file_path |-> FALSE,
      hash_ids |-> FALSE,
      max_aliases |-> 5,
      skip_existing |-> TRUE,
      only_in_components |-> << >>,
      skip_in_components |-> << >>,
      verbose |-> FALSE ]

\* PluginConfig::should_instrument
should_instrument(config, tag_name) == SeqContains(config.elements, tag_name)

\* should_skip_component without its else branch: an element outside every
\* component is never excluded
should_skip_component_named_only(config, component_name) ==
    IF IsSome(component_name)
    THEN IF SeqContains(config.skip_in_components, Unwrap(component_name)) THEN TRUE
         ELSE IF config.only_in_components /= << >>
                 /\ ~SeqContains(config.only_in_components, Unwrap(component_name))
              THEN TRUE
              ELSE FALSE
    ELSE FALSE

\* should_skip_component with the allow-list looked at first: a component on the
\* allow-list is included even when it is on the deny-list
should_skip_component_allow_first(config, component_name) ==
    IF IsSome(component_name)
    THEN IF config.only_in_components /= << >>
         THEN ~SeqContains(config.only_in_components, Unwrap(component_name))
         ELSE SeqContains(config.skip_in_components, Unwrap(component_name))
    ELSE IF config.only_in_components /= << >> THEN TRUE
         ELSE FALSE

\* PluginConfig::should_skip_component
should_skip_component(config, component_name) ==
    IF IsSome(component_name)
    THEN IF SeqContains(config.skip_in_components, Unwrap(component_name)) THEN TRUE
         ELSE IF config.only_in_components /= << >>
                 /\ ~SeqContains(config.only_in_components, Unwrap(component_name))
              THEN TRUE
              ELSE FALSE
    ELSE IF config.only_in_components /= << >> THEN TRUE
         ELSE FALSE

----------------------------------------------------------------------------
(* id_generator.rs *)

s_dash == <<"-">>
s_link == <<"l", "i", "n", "k">>
s_dropdown == <<"d", "r", "o", "p", "d", "o", "w", "n">>

\* the iteration without the rule for acronyms: a hyphen only after a lowercase
KebabPushNoAcronym(chars, i, result) ==
    LET c == chars[i] IN
    IF IsUppercase(c)
    THEN Append(IF result /= << >> /\ ~EndsWith(result, "-")
                   /\ i > 1 /\ IsLowercase(chars[i - 1])
                THEN Append(result, "-") ELSE result,
                Head(CharToLowercase(c)))
    ELSE IF IsAlphanumeric(c) THEN Append(result, c)
    ELSE IF result /= << >> /\ ~EndsWith(result, "-") THEN Append(result, "-")
    ELSE result

\* to_kebab_case: one iteration of the loop over chars, then the loop
KebabPush(chars, i, result) ==
    LET c == chars[i] IN
    IF IsUppercase(c)
    THEN LET prev_was_upper == i > 1 /\ IsUppercase(chars[i - 1])
             prev_was_lower == i > 1 /\ IsLowercase(chars[i - 1])
             next_is_lower == i + 1 <= Len(chars) /\ IsLowercase(chars[i + 1])
             hyphenated ==
                 IF result /= << >> /\ ~EndsWith(result, "-")
                    /\ (prev_was_lower \/ (prev_was_upper /\ next_is_lower))
                 THEN Append(result, "-")
                 ELSE result
         IN Append(hyphenated, Head(CharToLowercase(c)))
    ELSE IF IsAlphanumeric(c) THEN Append(result, c)
    ELSE IF result /= << >> /\ ~EndsWith(result, "-") THEN Append(result, "-")
    ELSE result

RECURSIVE KebabLoop(_, _, _)
KebabLoop(chars, i, result) ==
    IF i > Len(chars) THEN result
    ELSE KebabLoop(chars, i + 1, KebabPush(chars, i, result))

\* to_kebab_case, lines 164-167: remove a trailing dash
PopTrailingDash(result) ==
    IF EndsWith(result, "-") THEN SubSeq(result, 1, Len(result) - 1) ELSE result

to_kebab_case(s) == PopTrailingDash(KebabLoop(s, 1, << >>))

\* the number of words normalize_text keeps
NormalizeTake == 4

\* normalize_text without its take(4)
normalize_text_all_words(s) ==
    Join(SplitWhitespace(MapNonAlnumToSpace(ToLowercase(s))), s_dash)

\* normalize_text
normalize_text(s) ==
    Join(Take(SplitWhitespace(MapNonAlnumToSpace(ToLowercase(s))), NormalizeTake), s_dash)

\* str::split(pat).last() and str::split('.').next()
RECURSIVE AfterLastSlash(_)
AfterLastSlash(path) ==
    IF \E i \in DOMAIN path : path[i] \in {"/", "\\"}
    THEN AfterLastSlash(Tail(path))
    ELSE path
RECURSIVE BeforeFirstDot(_)
BeforeFirstDot(s) ==
    IF s = << >> \/ Head(s) = "." THEN << >>
    ELSE << Head(s) >> \o BeforeFirstDot(Tail(s))

\* extract_file_name
extract_file_name(path) == BeforeFirstDot(AfterLastSlash(path))

\* get_element_type_suffix
get_element_type_suffix(tag_name) ==
    CASE tag_name = t_a -> s_link
      [] tag_name = t_button -> t_button
      [] tag_name = t_input -> t_input
      [] tag_name = t_select -> s_dropdown
      [] tag_name = t_textarea -> t_textarea
      [] tag_name = t_form -> t_form
      [] OTHER -> tag_name

(* std::collections::hash_map::DefaultHasher.  DefaultHasher::new() has    *)
(* fixed keys, so finish() is a function of the bytes written; std leaves  *)
(* the algorithm unspecified.  The model fixes one such function: a 64-bit *)
(* value held as four 16-bit limbs (most significant first), each limb a   *)
(* polynomial over the characters written.                                 *)
LimbBits == 65536
CharCode(c) == IndexOf(AllChars, c)
RECURSIVE PolyHash(_, _, _)
PolyHash(s, mult, acc) ==
    IF s = << >> THEN acc
    ELSE PolyHash(Tail(s), mult, (acc * mult + CharCode(Head(s))) % LimbBits)
DefaultHasherFinish(s) ==
    << PolyHash(s, 31, 7), PolyHash(s, 131, 3), PolyHash(s, 257, 11), PolyHash(s, 8191, 5) >>
\* u64 as u32: the low 32 bits, as two limbs
AsU32(limbs) == << limbs[3], limbs[4] >>

HexDigits == <<"0", "1", "2", "3", "4", "5", "6", "7", "8", "9", "a", "b", "c", "d", "e", "f">>
\* {:08x} of a u32
Hex4(x) == << HexDigits[(x \div 4096) + 1], HexDigits[((x \div 256) % 16) + 1],
              HexDigits[((x \div 16) % 16) + 1], HexDigits[(x % 16) + 1] >>
FormatHex08(u32) == Hex4(u32[1]) \o Hex4(u32[2])

\* hash_id
hash_id(id) == <<"u", "i", "-">> \o FormatHex08(AsU32(DefaultHasherFinish(id)))

\* generate_id: a part that is pushed only when it is not empty
NonEmptyPart(part) == IF part /= << >> THEN << part >> ELSE << >>
KebabPart(part) == IF part /= << >> THEN << to_kebab_case(part) >> ELSE << >>

\* generate_id, lines 25-59: the parts, in order
IdParts(config, ctx) ==
    << config.id_prefix >>
    \o (IF config.include_component_name /\ IsSome(ctx.component_name)
        THEN << to_kebab_case(Unwrap(ctx.component_name)) >>
        ELSE << >>)
    \o (IF config.include_file_path THEN KebabPart(extract_file_name(ctx.file_path)) ELSE << >>)
    \o NonEmptyPart(normalize_text(Join(
            OptOr(ctx.existing_id,
                OptOr(ctx.text_content,
                    OptOr(ctx.aria_label, OptOr(ctx.placeholder, ctx.title)))), << >>)))
    \o << get_element_type_suffix(ctx.tag_name) >>

\* generate_id, line 61
AssembledId(config, ctx) == Join(IdParts(config, ctx), s_dash)

\* generate_id, lines 64-68
HashIfConfigured(config, id) == IF config.hash_ids THEN hash_id(id) ELSE id

generate_id(config, ctx) == HashIfConfigured(config, AssembledId(config, ctx))

\* the inference with the name scanned before the placeholder
InputTypeNameFirst(input_type, placeholder, ph, name, nm) ==
    CASE input_type = Some(<<"e", "m", "a", "i", "l">>) -> <<"e", "m", "a", "i", "l", "-", "i", "n", "p", "u", "t">>
      [] input_type = Some(<<"p", "a", "s", "s", "w", "o", "r", "d">>) -> <<"p", "a", "s", "s", "w", "o", "r", "d", "-", "i", "n", "p", "u", "t">>
      [] input_type = Some(<<"s", "e", "a", "r", "c", "h">>) -> <<"s", "e", "a", "r", "c", "h", "-", "i", "n", "p", "u", "t">>
      [] input_type = Some(<<"t", "e", "l">>) -> <<"p", "h", "o", "n", "e", "-", "i", "n", "p", "u", "t">>
      [] input_type = Some(<<"u", "r", "l">>) -> <<"u", "r", "l", "-", "i", "n", "p", "u", "t">>
      [] input_type = Some(<<"n", "u", "m", "b", "e", "r">>) -> <<"n", "u", "m", "b", "e", "r", "-", "i", "n", "p", "u", "t">>
      [] input_type = Some(<<"c", "h", "e", "c", "k", "b", "o", "x">>) -> <<"c", "h", "e", "c", "k", "b", "o", "x">>
      [] input_type = Some(<<"r", "a", "d", "i", "o">>) -> <<"r", "a", "d", "i", "o">>
      [] input_type = Some(<<"s", "u", "b", "m", "i", "t">>) -> <<"s", "u", "b", "m", "i", "t", "-", "b", "u", "t", "t", "o", "n">>
      [] input_type = Some(<<"f", "i", "l", "e">>) -> <<"f", "i", "l", "e", "-", "i", "n", "p", "u", "t">>
      [] input_type = Some(<<"d", "a", "t", "e">>) -> <<"d", "a", "t", "e", "-", "i", "n", "p", "u", "t">>
      [] input_type = Some(<<"t", "i", "m", "e">>) -> <<"t", "i", "m", "e", "-", "i", "n", "p", "u", "t">>
      [] OTHER ->
            IF IsSome(name) /\ Contains(nm, <<"e", "m", "a", "i", "l">>) THEN <<"e", "m", "a", "i", "l", "-", "i", "n", "p", "u", "t">>
            ELSE IF IsSome(name) /\ Contains(nm, <<"p", "a", "s", "s", "w", "o", "r", "d">>) THEN <<"p", "a", "s", "s", "w", "o", "r", "d", "-", "i", "n", "p", "u", "t">>
            ELSE IF IsSome(placeholder) /\ Contains(ph, <<"e", "m", "a", "i", "l">>) THEN <<"e", "m", "a", "i", "l", "-", "i", "n", "p", "u", "t">>
            ELSE IF IsSome(placeholder) /\ Contains(ph, <<"p", "a", "s", "s", "w", "o", "r", "d">>) THEN <<"p", "a", "s", "s", "w", "o", "r", "d", "-", "i", "n", "p", "u", "t">>
            ELSE IF IsSome(placeholder) /\ Contains(ph, <<"s", "e", "a", "r", "c", "h">>) THEN <<"s", "e", "a", "r", "c", "h", "-", "i", "n", "p", "u", "t">>
            ELSE IF IsSome(placeholder) /\ (Contains(ph, <<"p", "h", "o", "n", "e">>) \/ Contains(ph, <<"t", "e", "l">>))
                 THEN <<"p", "h", "o", "n", "e", "-", "i", "n", "p", "u", "t">>
            ELSE t_input

\* get_semantic_type, lines 86-131: an input, given its declared type and the
\* lowercased placeholder and name
InputType(input_type, placeholder, ph, name, nm) ==
    CASE input_type = Some(<<"e", "m", "a", "i", "l">>) -> <<"e", "m", "a", "i", "l", "-", "i", "n", "p", "u", "t">>
      [] input_type = Some(<<"p", "a", "s", "s", "w", "o", "r", "d">>) -> <<"p", "a", "s", "s", "w", "o", "r", "d", "-", "i", "n", "p", "u", "t">>
      [] input_type = Some(<<"s", "e", "a", "r", "c", "h">>) -> <<"s", "e", "a", "r", "c", "h", "-", "i", "n", "p", "u", "t">>
      [] input_type = Some(<<"t", "e", "l">>) -> <<"p", "h", "o", "n", "e", "-", "i", "n", "p", "u", "t">>
      [] input_type = Some(<<"u", "r", "l">>) -> <<"u", "r", "l", "-", "i", "n", "p", "u", "t">>
      [] input_type = Some(<<"n", "u", "m", "b", "e", "r">>) -> <<"n", "u", "m", "b", "e", "r", "-", "i", "n", "p", "u", "t">>
      [] input_type = Some(<<"c", "h", "e", "c", "k", "b", "o", "x">>) -> <<"c", "h", "e", "c", "k", "b", "o", "x">>
      [] input_type = Some(<<"r", "a", "d", "i", "o">>) -> <<"r", "a", "d", "i", "o">>
      [] input_type = Some(<<"s", "u", "b", "m", "i", "t">>) -> <<"s", "u", "b", "m", "i", "t", "-", "b", "u", "t", "t", "o", "n">>
      [] input_type = Some(<<"f", "i", "l", "e">>) -> <<"f", "i", "l", "e", "-", "i", "n", "p", "u", "t">>
      [] input_type = Some(<<"d", "a", "t", "e">>) -> <<"d", "a", "t", "e", "-", "i", "n", "p", "u", "t">>
      [] input_type = Some(<<"t", "i", "m", "e">>) -> <<"t", "i", "m", "e", "-", "i", "n", "p", "u", "t">>
      [] OTHER ->
            IF IsSome(placeholder) /\ Contains(ph, <<"e", "m", "a", "i", "l">>) THEN <<"e", "m", "a", "i", "l", "-", "i", "n", "p", "u", "t">>
            ELSE IF IsSome(placeholder) /\ Contains(ph, <<"p", "a", "s", "s", "w", "o", "r", "d">>) THEN <<"p", "a", "s", "s", "w", "o", "r", "d", "-", "i", "n", "p", "u", "t">>
            ELSE IF IsSome(placeholder) /\ Contains(ph, <<"s", "e", "a", "r", "c", "h">>) THEN <<"s", "e", "a", "r", "c", "h", "-", "i", "n", "p", "u", "t">>
            ELSE IF IsSome(placeholder) /\ (Contains(ph, <<"p", "h", "o", "n", "e">>) \/ Contains(ph, <<"t", "e", "l">>))
                 THEN <<"p", "h", "o", "n", "e", "-", "i", "n", "p", "u", "t">>
            ELSE IF IsSome(name) /\ Contains(nm, <<"e", "m", "a", "i", "l">>) THEN <<"e", "m", "a", "i", "l", "-", "i", "n", "p", "u", "t">>
            ELSE IF IsSome(name) /\ Contains(nm, <<"p", "a", "s", "s", "w", "o", "r", "d">>) THEN <<"p", "a", "s", "s", "w", "o", "r", "d", "-", "i", "n", "p", "u", "t">>
            ELSE t_input

\* get_semantic_type
get_semantic_type(tag_name, input_type, placeholder, name) ==
    CASE tag_name = t_button -> t_button
      [] tag_name = t_a -> s_link
      [] tag_name = t_form -> t_form
      [] tag_name = t_select -> s_dropdown
      [] tag_name = t_textarea -> t_textarea
      [] tag_name = t_input ->
            InputType(input_type, placeholder, ToLowercase(Join(placeholder, << >>)),
                      name, ToLowercase(Join(name, << >>)))
      [] OTHER -> tag_name

----------------------------------------------------------------------------
(* alias_generator.rs *)

synonym_map == <<
    [triggers |-> << <<"s", "u", "b", "m", "i", "t">>, <<"s", "e", "n", "d">>, <<"g", "o">> >>,
     all_synonyms |-> << <<"s", "u", "b", "m", "i", "t">>, <<"s", "e", "n", "d">>, <<"g", "o">>, <<"c", "o", "n", "f", "i", "r", "m">> >>],
    [triggers |-> << <<"s", "i", "g", "n", " ", "i", "n">>, <<"s", "i", "g", "n", "i", "n">>, <<"l", "o", "g", " ", "i", "n">>, <<"l", "o", "g", "i", "n">> >>,
     all_synonyms |-> << <<"s", "i", "g", "n", " ", "i", "n">>, <<"s", "i", "g", "n", "i", "n">>, <<"l", "o", "g", " ", "i", "n">>, <<"l", "o", "g", "i", "n">>, <<"a", "u", "t", "h", "e", "n", "t", "i", "c", "a", "t", "e">> >>],
    [triggers |-> << <<"s", "i", "g", "n", " ", "u", "p">>, <<"s", "i", "g", "n", "u", "p">>, <<"r", "e", "g", "i", "s", "t", "e", "r">>, <<"c", "r", "e", "a", "t", "e", " ", "a", "c", "c", "o", "u", "n", "t">> >>,
     all_synonyms |-> << <<"s", "i", "g", "n", " ", "u", "p">>, <<"s", "i", "g", "n", "u", "p">>, <<"r", "e", "g", "i", "s", "t", "e", "r">>, <<"c", "r", "e", "a", "t", "e", " ", "a", "c", "c", "o", "u", "n", "t">>, <<"j", "o", "i", "n">> >>],
    [triggers |-> << <<"s", "i", "g", "n", " ", "o", "u", "t">>, <<"s", "i", "g", "n", "o", "u", "t">>, <<"l", "o", "g", " ", "o", "u", "t">>, <<"l", "o", "g", "o", "u", "t">> >>,
     all_synonyms |-> << <<"s", "i", "g", "n", " ", "o", "u", "t">>, <<"s", "i", "g", "n", "o", "u", "t">>, <<"l", "o", "g", " ", "o", "u", "t">>, <<"l", "o", "g", "o", "u", "t">>, <<"e", "x", "i", "t">> >>],
    [triggers |-> << <<"c", "a", "n", "c", "e", "l">>, <<"c", "l", "o", "s", "e">>, <<"d", "i", "s", "m", "i", "s", "s">>, <<"x">> >>,
     all_synonyms |-> << <<"c", "a", "n", "c", "e", "l">>, <<"c", "l", "o", "s", "e">>, <<"d", "i", "s", "m", "i", "s", "s">>, <<"e", "x", "i", "t">>, <<"a", "b", "o", "r", "t">> >>],
    [triggers |-> << <<"s", "a", "v", "e">>, <<"s", "t", "o", "r", "e">>, <<"k", "e", "e", "p">> >>,
     all_synonyms |-> << <<"s", "a", "v", "e">>, <<"s", "t", "o", "r", "e">>, <<"k", "e", "e", "p">>, <<"p", "e", "r", "s", "i", "s", "t">>, <<"a", "p", "p", "l", "y">> >>],
    [triggers |-> << <<"d", "e", "l", "e", "t", "e">>, <<"r", "e", "m", "o", "v", "e">>, <<"t", "r", "a", "s", "h">> >>,
     all_synonyms |-> << <<"d", "e", "l", "e", "t", "e">>, <<"r", "e", "m", "o", "v", "e">>, <<"t", "r", "a", "s", "h">>, <<"d", "i", "s", "c", "a", "r", "d">>, <<"e", "r", "a", "s", "e">> >>],
    [triggers |-> << <<"e", "d", "i", "t">>, <<"m", "o", "d", "i", "f", "y">>, <<"c", "h", "a", "n", "g", "e">>, <<"u", "p", "d", "a", "t", "e">> >>,
     all_synonyms |-> << <<"e", "d", "i", "t">>, <<"m", "o", "d", "i", "f", "y">>, <<"c", "h", "a", "n", "g", "e">>, <<"u", "p", "d", "a", "t", "e">>, <<"a", "l", "t", "e", "r">> >>],
    [triggers |-> << <<"s", "e", "a", "r", "c", "h">>, <<"f", "i", "n", "d">>, <<"l", "o", "o", "k", "u", "p">> >>,
     all_synonyms |-> << <<"s", "e", "a", "r", "c", "h">>, <<"f", "i", "n", "d">>, <<"l", "o", "o", "k", "u", "p">>, <<"q", "u", "e", "r", "y">>, <<"f", "i", "l", "t", "e", "r">> >>],
    [triggers |-> << <<"n", "e", "x", "t">>, <<"c", "o", "n", "t", "i", "n", "u", "e">>, <<"p", "r", "o", "c", "e", "e", "d">>, <<"f", "o", "r", "w", "a", "r", "d">> >>,
     all_synonyms |-> << <<"n", "e", "x", "t">>, <<"c", "o", "n", "t", "i", "n", "u", "e">>, <<"p", "r", "o", "c", "e", "e", "d">>, <<"f", "o", "r", "w", "a", "r", "d">>, <<"a", "d", "v", "a", "n", "c", "e">> >>],
    [triggers |-> << <<"b", "a", "c", "k">>, <<"p", "r", "e", "v", "i", "o", "u", "s">>, <<"p", "r", "e", "v">>, <<"r", "e", "t", "u", "r", "n">> >>,
     all_synonyms |-> << <<"b", "a", "c", "k">>, <<"p", "r", "e", "v", "i", "o", "u", "s">>, <<"p", "r", "e", "v">>, <<"r", "e", "t", "u", "r", "n">>, <<"g", "o", " ", "b", "a", "c", "k">> >>],
    [triggers |-> << <<"s", "t", "a", "r", "t">>, <<"b", "e", "g", "i", "n">>, <<"l", "a", "u", "n", "c", "h">>, <<"r", "u", "n">> >>,
     all_synonyms |-> << <<"s", "t", "a", "r", "t">>, <<"b", "e", "g", "i", "n">>, <<"l", "a", "u", "n", "c", "h">>, <<"r", "u", "n">>, <<"e", "x", "e", "c", "u", "t", "e">>, <<"i", "n", "i", "t", "i", "a", "t", "e">> >>],
    [triggers |-> << <<"s", "t", "o", "p">>, <<"e", "n", "d">>, <<"h", "a", "l", "t">>, <<"p", "a", "u", "s", "e">> >>,
     all_synonyms |-> << <<"s", "t", "o", "p">>, <<"e", "n", "d">>, <<"h", "a", "l", "t">>, <<"p", "a", "u", "s", "e">>, <<"t", "e", "r", "m", "i", "n", "a", "t", "e">> >>],
    [triggers |-> << <<"a", "d", "d">>, <<"c", "r", "e", "a", "t", "e">>, <<"n", "e", "w">>, <<"p", "l", "u", "s">> >>,
     all_synonyms |-> << <<"a", "d", "d">>, <<"c", "r", "e", "a", "t", "e">>, <<"n", "e", "w">>, <<"p", "l", "u", "s">>, <<"i", "n", "s", "e", "r", "t">> >>],
    [triggers |-> << <<"d", "o", "w", "n", "l", "o", "a", "d">>, <<"e", "x", "p", "o", "r", "t">>, <<"s", "a", "v", "e", " ", "a", "s">> >>,
     all_synonyms |-> << <<"d", "o", "w", "n", "l", "o", "a", "d">>, <<"e", "x", "p", "o", "r", "t">>, <<"s", "a", "v", "e", " ", "a", "s">>, <<"g", "e", "t">> >>],
    [triggers |-> << <<"u", "p", "l", "o", "a", "d">>, <<"i", "m", "p", "o", "r", "t">>, <<"a", "t", "t", "a", "c", "h">> >>,
     all_synonyms |-> << <<"u", "p", "l", "o", "a", "d">>, <<"i", "m", "p", "o", "r", "t">>, <<"a", "t", "t", "a", "c", "h">>, <<"a", "d", "d", " ", "f", "i", "l", "e">> >>],
    [triggers |-> << <<"c", "o", "n", "f", "i", "r", "m">>, <<"o", "k">>, <<"o", "k", "a", "y">>, <<"y", "e", "s">>, <<"a", "c", "c", "e", "p", "t">> >>,
     all_synonyms |-> << <<"c", "o", "n", "f", "i", "r", "m">>, <<"o", "k">>, <<"o", "k", "a", "y">>, <<"y", "e", "s">>, <<"a", "c", "c", "e", "p", "t">>, <<"a", "g", "r", "e", "e">> >>],
    [triggers |-> << <<"d", "e", "n", "y">>, <<"n", "o">>, <<"r", "e", "j", "e", "c", "t">>, <<"d", "e", "c", "l", "i", "n", "e">> >>,
     all_synonyms |-> << <<"d", "e", "n", "y">>, <<"n", "o">>, <<"r", "e", "j", "e", "c", "t">>, <<"d", "e", "c", "l", "i", "n", "e">>, <<"r", "e", "f", "u", "s", "e">> >>],
    [triggers |-> << <<"h", "e", "l", "p">>, <<"s", "u", "p", "p", "o", "r", "t">>, <<"i", "n", "f", "o">>, <<"i", "n", "f", "o", "r", "m", "a", "t", "i", "o", "n">> >>,
     all_synonyms |-> << <<"h", "e", "l", "p">>, <<"s", "u", "p", "p", "o", "r", "t">>, <<"i", "n", "f", "o">>, <<"i", "n", "f", "o", "r", "m", "a", "t", "i", "o", "n">>, <<"f", "a", "q">> >>],
    [triggers |-> << <<"s", "e", "t", "t", "i", "n", "g", "s">>, <<"p", "r", "e", "f", "e", "r", "e", "n", "c", "e", "s">>, <<"o", "p", "t", "i", "o", "n", "s">>, <<"c", "o", "n", "f", "i", "g">> >>,
     all_synonyms |-> << <<"s", "e", "t", "t", "i", "n", "g", "s">>, <<"p", "r", "e", "f", "e", "r", "e", "n", "c", "e", "s">>, <<"o", "p", "t", "i", "o", "n", "s">>, <<"c", "o", "n", "f", "i", "g">>, <<"c", "o", "n", "f", "i", "g", "u", "r", "e">> >>],
    [triggers |-> << <<"p", "r", "o", "f", "i", "l", "e">>, <<"a", "c", "c", "o", "u", "n", "t">>, <<"u", "s", "e", "r">> >>,
     all_synonyms |-> << <<"p", "r", "o", "f", "i", "l", "e">>, <<"a", "c", "c", "o", "u", "n", "t">>, <<"u", "s", "e", "r">>, <<"m", "y", " ", "a", "c", "c", "o", "u", "n", "t">> >>],
    [triggers |-> << <<"h", "o", "m", "e">>, <<"m", "a", "i", "n">>, <<"d", "a", "s", "h", "b", "o", "a", "r", "d">> >>,
     all_synonyms |-> << <<"h", "o", "m", "e">>, <<"m", "a", "i", "n">>, <<"d", "a", "s", "h", "b", "o", "a", "r", "d">>, <<"s", "t", "a", "r", "t", " ", "p", "a", "g", "e">> >>],
    [triggers |-> << <<"m", "e", "n", "u">>, <<"n", "a", "v", "i", "g", "a", "t", "i", "o", "n">>, <<"n", "a", "v">> >>,
     all_synonyms |-> << <<"m", "e", "n", "u">>, <<"n", "a", "v", "i", "g", "a", "t", "i", "o", "n">>, <<"n", "a", "v">>, <<"h", "a", "m", "b", "u", "r", "g", "e", "r">> >>],
    [triggers |-> << <<"r", "e", "f", "r", "e", "s", "h">>, <<"r", "e", "l", "o", "a", "d">>, <<"u", "p", "d", "a", "t", "e">> >>,
     all_synonyms |-> << <<"r", "e", "f", "r", "e", "s", "h">>, <<"r", "e", "l", "o", "a", "d">>, <<"u", "p", "d", "a", "t", "e">>, <<"s", "y", "n", "c">> >>],
    [triggers |-> << <<"c", "o", "p", "y">>, <<"d", "u", "p", "l", "i", "c", "a", "t", "e">>, <<"c", "l", "o", "n", "e">> >>,
     all_synonyms |-> << <<"c", "o", "p", "y">>, <<"d", "u", "p", "l", "i", "c", "a", "t", "e">>, <<"c", "l", "o", "n", "e">>, <<"r", "e", "p", "l", "i", "c", "a", "t", "e">> >>],
    [triggers |-> << <<"p", "a", "s", "t", "e">>, <<"i", "n", "s", "e", "r", "t">> >>,
     all_synonyms |-> << <<"p", "a", "s", "t", "e">>, <<"i", "n", "s", "e", "r", "t">>, <<"p", "u", "t">> >>],
    [triggers |-> << <<"s", "h", "a", "r", "e">>, <<"s", "e", "n", "d", " ", "t", "o">> >>,
     all_synonyms |-> << <<"s", "h", "a", "r", "e">>, <<"s", "e", "n", "d", " ", "t", "o">>, <<"f", "o", "r", "w", "a", "r", "d">>, <<"d", "i", "s", "t", "r", "i", "b", "u", "t", "e">> >>],
    [triggers |-> << <<"v", "i", "e", "w">>, <<"s", "h", "o", "w">>, <<"d", "i", "s", "p", "l", "a", "y">>, <<"s", "e", "e">> >>,
     all_synonyms |-> << <<"v", "i", "e", "w">>, <<"s", "h", "o", "w">>, <<"d", "i", "s", "p", "l", "a", "y">>, <<"s", "e", "e">>, <<"r", "e", "v", "e", "a", "l">> >>],
    [triggers |-> << <<"h", "i", "d", "e">>, <<"c", "o", "n", "c", "e", "a", "l">> >>,
     all_synonyms |-> << <<"h", "i", "d", "e">>, <<"c", "o", "n", "c", "e", "a", "l">>, <<"c", "o", "l", "l", "a", "p", "s", "e">>, <<"m", "i", "n", "i", "m", "i", "z", "e">> >>],
    [triggers |-> << <<"e", "x", "p", "a", "n", "d">>, <<"m", "o", "r", "e">>, <<"s", "h", "o", "w", " ", "m", "o", "r", "e">> >>,
     all_synonyms |-> << <<"e", "x", "p", "a", "n", "d">>, <<"m", "o", "r", "e">>, <<"s", "h", "o", "w", " ", "m", "o", "r", "e">>, <<"d", "e", "t", "a", "i", "l", "s">>, <<"s", "e", "e", " ", "a", "l", "l">> >>],
    [triggers |-> << <<"c", "o", "l", "l", "a", "p", "s", "e">>, <<"l", "e", "s", "s">>, <<"s", "h", "o", "w", " ", "l", "e", "s", "s">> >>,
     all_synonyms |-> << <<"c", "o", "l", "l", "a", "p", "s", "e">>, <<"l", "e", "s", "s">>, <<"s", "h", "o", "w", " ", "l", "e", "s", "s">>, <<"h", "i", "d", "e", " ", "d", "e", "t", "a", "i", "l", "s">> >>]
>>

\* normalize_for_alias
normalize_for_alias(s) ==
    Join(SplitWhitespace(FilterAlnumOrSpace(ToLowercase(Trim(s)))), <<" ">>)

\* get_synonyms: the first group with a trigger contained in text decides
RECURSIVE PushSynonyms(_, _, _)
PushSynonyms(all_synonyms, text, synonyms) ==
    IF all_synonyms = << >> THEN synonyms
    ELSE PushSynonyms(Tail(all_synonyms), text,
            IF Head(all_synonyms) /= text /\ ~SeqContains(synonyms, Head(all_synonyms))
            THEN Append(synonyms, Head(all_synonyms))
            ELSE synonyms)
\* a scan that goes on after the first matching group and merges the groups
RECURSIVE SynonymScanMerge(_, _, _)
SynonymScanMerge(groups, text, synonyms) ==
    IF groups = << >> THEN synonyms
    ELSE SynonymScanMerge(Tail(groups), text,
            IF \E i \in DOMAIN Head(groups).triggers : Contains(text, Head(groups).triggers[i])
            THEN PushSynonyms(Head(groups).all_synonyms, text, synonyms)
            ELSE synonyms)
SynonymScanAll(groups, text) == SynonymScanMerge(groups, text, << >>)
RECURSIVE SynonymScan(_, _)
SynonymScan(groups, text) ==
    IF groups = << >> THEN << >>
    ELSE IF \E i \in DOMAIN Head(groups).triggers : Contains(text, Head(groups).triggers[i])
         THEN PushSynonyms(Head(groups).all_synonyms, text, << >>)
         ELSE SynonymScan(Tail(groups), text)
get_synonyms(text) == SynonymScan(synonym_map, text)

\* generate_aliases: the pushes, then the truncation
RECURSIVE PushAllNew(_, _)
PushAllNew(aliases, syns) ==
    IF syns = << >> THEN aliases
    ELSE PushAllNew(IF SeqContains(aliases, Head(syns)) THEN aliases
                    ELSE Append(aliases, Head(syns)), Tail(syns))
\* a normalized candidate is pushed when it is not empty and not yet present
\* a push that does not look for the candidate among the aliases
PushNormalizedAgain(aliases, normalized) ==
    IF normalized /= << >> THEN Append(aliases, normalized) ELSE aliases
PushNormalized(aliases, normalized) ==
    IF normalized /= << >> /\ ~SeqContains(aliases, normalized)
    THEN Append(aliases, normalized)
    ELSE aliases
PushSource(aliases, source) ==
    IF IsSome(source) THEN PushNormalized(aliases, normalize_for_alias(Unwrap(source)))
    ELSE aliases
\* generate_aliases, lines 23-34: the text content and its synonyms
TextAliases(normalized) ==
    IF normalized /= << >> THEN PushAllNew(<< normalized >>, get_synonyms(normalized))
    ELSE << >>
\* generate_aliases, lines 20-66: the list before the truncation
AliasCandidates(ctx) ==
    PushSource(PushSource(PushSource(PushSource(
        (IF IsSome(ctx.text_content)
         THEN TextAliases(normalize_for_alias(Unwrap(ctx.text_content)))
         ELSE << >>),
        ctx.aria_label), ctx.placeholder), ctx.title), ctx.name)
\* a truncation that keeps one alias too many
AliasTruncateOneMore(aliases, max_aliases) == Take(aliases, max_aliases + 1)
\* generate_aliases, line 69
AliasTruncate(aliases, max_aliases) == Take(aliases, max_aliases)
generate_aliases(config, ctx) == AliasTruncate(AliasCandidates(ctx), config.max_aliases)

\* format_aliases
format_aliases(aliases) == Join(aliases, <<",">>)

----------------------------------------------------------------------------
(* lib.rs: the configuration handed over by the host.  A JSON value is a   *)
(* record whose field t names its type and whose other field, named after  *)
(* the type, holds the value; the plugin options are None (no options), or *)
(* Some of either a text that is no JSON object or a JSON object (a        *)
(* function from its keys to JSON values).                                 *)

JStr(s) == [t |-> "string", string |-> s]
JBool(b) == [t |-> "bool", bool |-> b]
JNum(n) == [t |-> "number", number |-> n]
JArr(items) == [t |-> "array", array |-> items]
JNull == [t |-> "null"]

\* the keys of PluginConfig under #[serde(rename_all = "camelCase")], with the
\* field each sets and the Rust type serde expects
ConfigFields == <<
    [key |-> "elements", field |-> "elements", type |-> "Vec<String>"],
    [key |-> "idPrefix", field |-> "id_prefix", type |-> "String"],
    [key |-> "idAttribute", field |-> "id_attribute", type |-> "String"],
    [key |-> "aliasesAttribute", field |-> "aliases_attribute", type |-> "String"],
    [key |-> "typeAttribute", field |-> "type_attribute", type |-> "String"],
    [key |-> "generateAliases", field |-> "generate_aliases", type |-> "bool"],
    [key |-> "includeComponentName", field |-> "include_component_name", type |-> "bool"],
    [key |-> "includeFilePath", field |-> "include_file_path", type |-> "bool"],
    [key |-> "hashIds", field |-> "hash_ids", type |-> "bool"],
    [key |-> "maxAliases", field |-> "max_aliases", type |-> "usize"],
    [key |-> "skipExisting", field |-> "skip_existing", type |-> "bool"],
    [key |-> "onlyInComponents", field |-> "only_in_components", type |-> "Vec<String>"],
    [key |-> "skipInComponents", field |-> "skip_in_components", type |-> "Vec<String>"],
    [key |-> "verbose", field |-> "verbose", type |-> "bool"] >>

\* serde's deserialization of one value as one Rust type: Some(value), or None
\* when the value has the wrong shape
DeserializeValue(type, jv) ==
    CASE type = "String" -> IF jv.t = "string" THEN Some(jv.string) ELSE None
      [] type = "bool" -> IF jv.t = "bool" THEN Some(jv.bool) ELSE None
      [] type = "usize" -> IF jv.t = "number" /\ jv.number >= 0 THEN Some(jv.number) ELSE None
      [] type = "Vec<String>" ->
            IF jv.t = "array" /\ \A i \in DOMAIN jv.array : jv.array[i].t = "string"
            THEN Some([i \in DOMAIN jv.array |-> jv.array[i].string])
            ELSE None

\* serde_json::from_str::<PluginConfig>: a field that is absent takes its
\* #[serde(default)]; a field that fails to deserialize fails the whole parse;
\* keys that name no field are ignored
FieldOf(obj, i) ==
    IF ConfigFields[i].key \in DOMAIN obj
    THEN DeserializeValue(ConfigFields[i].type, obj[ConfigFields[i].key])
    ELSE Some(DefaultConfig[ConfigFields[i].field])
from_str(text) ==
    IF text.kind /= "object" THEN None
    ELSE IF \E i \in DOMAIN ConfigFields : IsNone(FieldOf(text.obj, i)) THEN None
    ELSE Some([f \in DOMAIN DefaultConfig |->
                 Unwrap(FieldOf(text.obj,
                                CHOOSE i \in DOMAIN ConfigFields : ConfigFields[i].field = f))])

\* process_transform, lines 64-68: the configuration the pass runs with
ParsedOrDefault(parsed) == IF IsSome(parsed) THEN Unwrap(parsed) ELSE DefaultConfig
TransformConfig(plugin_config) ==
    ParsedOrDefault(IF IsSome(plugin_config) THEN from_str(Unwrap(plugin_config)) ELSE None)

\* process_transform, lines 71-73: the file name the pass runs with
TransformFilename(context_filename) ==
    IF IsSome(context_filename) THEN Unwrap(context_filename) ELSE s_unknown

----------------------------------------------------------------------------
(* The source unit.  The program tree is held as the sequence of tokens a  *)
(* depth-first walk meets: a declaration or a markup element opens with    *)
(* one token and closes with a later one, and what lies between are its    *)
(* children.                                                               *)

FnDecl(name) == [k |-> "fn_decl", name |-> name]
\* init: "arrow", "fn", "other" or "none"
VarDeclarator(name, init) == [k |-> "var_declarator", name |-> name, init |-> init]
ClassDecl(name) == [k |-> "class_decl", name |-> name]
EndDecl == [k |-> "end_decl"]
\* name_kind: "ident", "member" (Component.Sub) or "namespaced" (svg:rect)
JsxOpen(name_kind, tag, attributes) ==
    [k |-> "jsx_open", name_kind |-> name_kind, tag |-> tag, attrs |-> attributes]
JsxClose == [k |-> "jsx_close"]
JsxText(value) == [k |-> "jsx_text", value |-> value]
\* {"text"}, {`a${x}b`} with its quasis, and any other child that holds
\* children of its own: a fragment, or an expression container
JsxExprStr(value) == [k |-> "jsx_expr_str", value |-> value]
JsxExprTpl(quasis) == [k |-> "jsx_expr_tpl", quasis |-> quasis]
OtherOpen(what) == [k |-> "other_open", what |-> what]
OtherClose == [k |-> "other_close"]

\* an attribute: name_kind "ident", "namespaced" or "spread"; value shape
\* "str" ("v"), "expr_str" ({"v"}), "expr_other" ({v}) or "none" (no value)
Attr(name, shape, v) == [name_kind |-> "ident", name |-> name, shape |-> shape, v |-> v]
StrAttr(name, v) == Attr(name, "str", v)

IsOpener(tok) == tok.k \in {"fn_decl", "var_declarator", "class_decl", "jsx_open", "other_open"}
IsCloser(tok) == tok.k \in {"end_decl", "jsx_close", "other_close"}

\* the index of the token that closes the one opened at i
RECURSIVE CloserFrom(_, _, _)
CloserFrom(u, j, depth) ==
    IF IsOpener(u[j]) THEN CloserFrom(u, j + 1, depth + 1)
    ELSE IF IsCloser(u[j]) THEN (IF depth = 1 THEN j ELSE CloserFrom(u, j + 1, depth - 1))
    ELSE CloserFrom(u, j + 1, depth)
MatchClose(u, i) == CloserFrom(u, i + 1, 1)

----------------------------------------------------------------------------
(* text_extractor.rs *)

\* the trimmed text, pushed when it is not empty
PushTrimmed(text_parts, s) ==
    IF Trim(s) /= << >> THEN Append(text_parts, Trim(s)) ELSE text_parts
RECURSIVE PushQuasis(_, _)
PushQuasis(text_parts, quasis) ==
    IF quasis = << >> THEN text_parts
    ELSE PushQuasis(PushTrimmed(text_parts, Head(quasis)), Tail(quasis))

\* extract_text_content, lines 55-59: None when nothing was collected
JoinParts(text_parts) ==
    IF text_parts = << >> THEN None ELSE Some(Join(text_parts, <<" ">>))
\* extract_text_content, lines 37-41: the text of a nested element, when it has any
PushNested(text_parts, text) ==
    IF IsSome(text) THEN Append(text_parts, Unwrap(text)) ELSE text_parts

\* extract_text_content over the children held in u[lo .. hi]
RECURSIVE ExtractParts(_, _, _, _)
RECURSIVE ExtractNested(_, _, _, _, _)
\* an extraction that also collects the attribute values of the elements it meets
AttributeValues(u, lo, hi) ==
    [k \in 1 .. Cardinality({ j \in lo .. hi : u[j].k = "jsx_open" /\ u[j].attrs /= << >> }) |->
        Head(u[CHOOSE j \in lo .. hi :
                  /\ u[j].k = "jsx_open" /\ u[j].attrs /= << >>
                  /\ Cardinality({ h \in lo .. j : u[h].k = "jsx_open" /\ u[h].attrs /= << >> }) = k
              ].attrs).v]
extract_text_content_and_attributes(u, lo, hi) ==
    JoinParts(ExtractParts(u, lo, hi, << >>) \o AttributeValues(u, lo, hi))
extract_text_content(u, lo, hi) == JoinParts(ExtractParts(u, lo, hi, << >>))
ExtractParts(u, i, hi, text_parts) ==
    IF i > hi THEN text_parts
    ELSE CASE u[i].k = "jsx_text" ->
                ExtractParts(u, i + 1, hi, PushTrimmed(text_parts, u[i].value))
           [] u[i].k = "jsx_expr_str" ->
                ExtractParts(u, i + 1, hi, PushTrimmed(text_parts, u[i].value))
           [] u[i].k = "jsx_expr_tpl" ->
                ExtractParts(u, i + 1, hi, PushQuasis(text_parts, u[i].quasis))
           [] u[i].k = "jsx_open" \/ (u[i].k = "other_open" /\ u[i].what = "fragment") ->
                ExtractNested(u, i, MatchClose(u, i), hi, text_parts)
           [] IsOpener(u[i]) -> ExtractParts(u, MatchClose(u, i) + 1, hi, text_parts)
           [] OTHER -> ExtractParts(u, i + 1, hi, text_parts)
\* the child opened at i and closed at j is an element or a fragment: recurse
ExtractNested(u, i, j, hi, text_parts) ==
    ExtractParts(u, j + 1, hi, PushNested(text_parts, extract_text_content(u, i + 1, j - 1)))

\* get_attribute_value: the first attribute of that name decides
RECURSIVE get_attribute_value(_, _)
get_attribute_value(element_attrs, attr_name) ==
    IF element_attrs = << >> THEN None
    ELSE LET attr == Head(element_attrs) IN
         IF attr.name_kind = "ident" /\ attr.name = attr_name
         THEN IF attr.shape \in {"str", "expr_str"} THEN Some(attr.v) ELSE None
         ELSE get_attribute_value(Tail(element_attrs), attr_name)

\* has_attribute that looks at the first attribute only
has_attribute_first(element_attrs, attr_name) ==
    /\ element_attrs /= << >>
    /\ element_attrs[1].name_kind = "ident" /\ element_attrs[1].name = attr_name

\* has_attribute
has_attribute(element_attrs, attr_name) ==
    \E i \in DOMAIN element_attrs :
        element_attrs[i].name_kind = "ident" /\ element_attrs[i].name = attr_name

\* get_tag_name
get_tag_name(open) == IF open.name_kind = "ident" THEN Some(open.tag) ELSE None

\* is_html_element
is_html_element(tag_name) == tag_name /= << >> /\ IsLowercase(Head(tag_name))

----------------------------------------------------------------------------
(* visitor.rs *)

\* UIBridgeVisitor::new: the traversal state of a fresh visitor
NewVisitor == [component_stack |-> << >>, element_counters |-> << >>, processed_ids |-> {}]

\* UIBridgeVisitor::current_component
current_component(stack) == IF stack = << >> THEN None ELSE Some(Last(stack))

\* UIBridgeVisitor::get_element_index: the counters after the call, and the index
\* one counter for every tag
CounterKeyShared(tag_name) == << >>
CounterKey(tag_name) == tag_name
Incremented(counters, key) == (IF key \in DOMAIN counters THEN counters[key] ELSE 0) + 1
get_element_index(counters, tag_name) ==
    [element_counters |-> [t \in DOMAIN counters \cup {CounterKey(tag_name)} |->
                              IF t = CounterKey(tag_name)
                              THEN Incremented(counters, CounterKey(tag_name))
                              ELSE counters[t]],
     index |-> Incremented(counters, CounterKey(tag_name))]

\* an add_attribute that puts the new attribute in front of the list
add_attribute_front(element_attrs, name, value) == << StrAttr(name, value) >> \o element_attrs
\* UIBridgeVisitor::add_attribute
add_attribute(element_attrs, name, value) == Append(element_attrs, StrAttr(name, value))

\* UIBridgeVisitor::is_component_name
is_component_name(name) == name /= << >> /\ IsUppercase(Head(name))

\* process_jsx_element, lines 77-100: why the element is left alone, or "instrument"
Decision(config, stack, open, element_attrs) ==
    IF IsNone(get_tag_name(open)) THEN "no_tag_name"
    ELSE IF ~is_html_element(open.tag) THEN "not_html"
    ELSE IF ~should_instrument(config, open.tag) THEN "not_configured"
    ELSE IF config.skip_existing /\ has_attribute(element_attrs, config.id_attribute)
         THEN "skip_existing"
    ELSE IF should_skip_component(config, current_component(stack)) THEN "skip_component"
    ELSE "instrument"

\* a collision handling that keeps the generated identifier as it is
ResolveCollisionKeep(processed, generated_id, element_index) ==
    [final_id |-> generated_id, processed_ids |-> processed \cup {generated_id}]
\* process_jsx_element, lines 127-133: the final identifier and the issued set
ResolveCollision(processed, generated_id, element_index) ==
    IF generated_id \in processed
    THEN [final_id |-> generated_id \o s_dash \o ToDecimal(element_index),
          processed_ids |-> processed]
    ELSE [final_id |-> generated_id, processed_ids |-> processed \cup {generated_id}]

\* process_jsx_element, lines 103-109: what is read off the element
ElementContext(file, self, u, i, element_attrs) ==
    [component_name |-> current_component(self.component_stack),
     file_path |-> file,
     tag_name |-> u[i].tag,
     text_content |-> extract_text_content(u, i + 1, MatchClose(u, i) - 1),
     aria_label |-> get_attribute_value(element_attrs, <<"a", "r", "i", "a", "-", "l", "a", "b", "e", "l">>),
     placeholder |-> get_attribute_value(element_attrs, <<"p", "l", "a", "c", "e", "h", "o", "l", "d", "e", "r">>),
     title |-> get_attribute_value(element_attrs, <<"t", "i", "t", "l", "e">>),
     name |-> get_attribute_value(element_attrs, <<"n", "a", "m", "e">>),
     existing_id |-> get_attribute_value(element_attrs, <<"i", "d">>),
     input_type |-> get_attribute_value(element_attrs, <<"t", "y", "p", "e">>)]

\* process_jsx_element, lines 113-123 and 149-156: the two contexts
IdContext(ctx, element_index) ==
    [component_name |-> ctx.component_name, file_path |-> ctx.file_path,
     tag_name |-> ctx.tag_name, text_content |-> ctx.text_content,
     aria_label |-> ctx.aria_label, placeholder |-> ctx.placeholder,
     title |-> ctx.title, existing_id |-> ctx.existing_id,
     element_index |-> element_index]
AliasContext(ctx) ==
    [tag_name |-> ctx.tag_name, text_content |-> ctx.text_content,
     aria_label |-> ctx.aria_label, placeholder |-> ctx.placeholder,
     title |-> ctx.title, name |-> ctx.name]

\* process_jsx_element, lines 135-163: the attributes added, in order
\* an attachment that returns before the aliases when the verbose flag is set
AddAliasesUnlessVerbose(config, element_attrs, aliases) ==
    IF config.generate_aliases /\ aliases /= << >> /\ ~config.verbose
    THEN add_attribute(element_attrs, config.aliases_attribute, format_aliases(aliases))
    ELSE element_attrs
AddAliases(config, element_attrs, aliases) ==
    IF config.generate_aliases /\ aliases /= << >>
    THEN add_attribute(element_attrs, config.aliases_attribute, format_aliases(aliases))
    ELSE element_attrs
AddAttributes(config, element_attrs, final_id, semantic_type, aliases) ==
    AddAliases(config,
        add_attribute(add_attribute(element_attrs, config.id_attribute, final_id),
                      config.type_attribute, semantic_type),
        aliases)

\* process_jsx_element, lines 135-171, once the identifier is final
InstrumentResolved(config, self, i, element_attrs, ctx, indexed, generated_id, resolved, semantic_type, aliases) ==
    [attrs |-> AddAttributes(config, element_attrs, resolved.final_id, semantic_type, aliases),
     visitor |-> [self EXCEPT !.element_counters = indexed.element_counters,
                              !.processed_ids = resolved.processed_ids],
     entry |-> [open |-> i, tag |-> ctx.tag_name, outcome |-> "instrument",
                component |-> ctx.component_name,
                index |-> indexed.index, generated_id |-> generated_id,
                final_id |-> resolved.final_id, semantic_type |-> semantic_type,
                aliases |-> aliases],
     stderr |-> IF config.verbose
                THEN << << "Instrumented", ctx.tag_name, resolved.final_id >> >>
                ELSE << >>]

\* process_jsx_element, lines 125-133: the identifier generated, then made final
InstrumentGenerated(config, self, i, element_attrs, ctx, indexed, generated_id) ==
    InstrumentResolved(config, self, i, element_attrs, ctx, indexed, generated_id,
        ResolveCollision(self.processed_ids, generated_id, indexed.index),
        get_semantic_type(ctx.tag_name, ctx.input_type, ctx.placeholder, ctx.name),
        IF config.generate_aliases THEN generate_aliases(config, AliasContext(ctx)) ELSE << >>)

\* process_jsx_element, lines 110-125: the positional index, then the identifier
InstrumentIndexed(config, self, i, element_attrs, ctx, indexed) ==
    InstrumentGenerated(config, self, i, element_attrs, ctx, indexed,
        generate_id(config, IdContext(ctx, indexed.index)))

\* process_jsx_element, lines 102-171, for an element that is instrumented
Instrument(config, file, self, u, i, element_attrs) ==
    InstrumentIndexed(config, self, i, element_attrs,
        ElementContext(file, self, u, i, element_attrs),
        get_element_index(self.element_counters, u[i].tag))

\* process_jsx_element, lines 77-100, for an element that is left alone
LeaveAlone(self, u, i, element_attrs, decision) ==
    [attrs |-> element_attrs,
     visitor |-> self,
     entry |-> [open |-> i, tag |-> u[i].tag, outcome |-> decision,
                component |-> current_component(self.component_stack)],
     stderr |-> << >>]

\* process_jsx_element: the element's attribute list and the visitor after the
\* call, with the record of what was decided and the lines written to stderr
process_jsx_element(config, file, self, u, i, element_attrs) ==
    IF Decision(config, self.component_stack, u[i], element_attrs) = "instrument"
    THEN Instrument(config, file, self, u, i, element_attrs)
    ELSE LeaveAlone(self, u, i, element_attrs,
                    Decision(config, self.component_stack, u[i], element_attrs))

----------------------------------------------------------------------------
(* The walk of one pass.  w is the state of the walk: pc (the index of the *)
(* next token), frames (one entry per handler that has descended into its  *)
(* children and not yet returned), attrs (the attribute list of the        *)
(* element opened at each index), log (one entry per element handed to     *)
(* process_jsx_element) and stderr.  v is the visitor.  Each operator      *)
(* gives the walk and the visitor after the step.                          *)

SourceAttrs(u) == [i \in DOMAIN u |-> IF u[i].k = "jsx_open" THEN u[i].attrs ELSE << >>]

Absent == [phase |-> "absent", pc |-> 0, frames |-> << >>, attrs |-> << >>,
           log |-> << >>, stderr |-> << >>]
Idle == [Absent EXCEPT !.phase = "idle"]

\* the tree as it stands: the unit with the attribute lists the elements have
\* now; at the end of the walk, the tree the pass hands back
OutputTree(u, w) ==
    [i \in DOMAIN u |-> IF u[i].k = "jsx_open" THEN [u[i] EXCEPT !.attrs = w.attrs[i]] ELSE u[i]]

\* visit_mut_fn_decl, visit_mut_class_decl: push the name of a component, descend
EnterDecl(w, v, name) ==
    IF is_component_name(name)
    THEN [walk |-> [w EXCEPT !.pc = @ + 1,
                             !.frames = Append(@, [open |-> w.pc, pushed |-> TRUE])],
          visitor |-> [v EXCEPT !.component_stack = Append(@, name)]]
    ELSE [walk |-> [w EXCEPT !.pc = @ + 1,
                             !.frames = Append(@, [open |-> w.pc, pushed |-> FALSE])],
          visitor |-> v]

visit_mut_fn_decl(w, v, n) == EnterDecl(w, v, n.name)
visit_mut_class_decl(w, v, n) == EnterDecl(w, v, n.name)

\* visit_mut_var_declarator: the name is pushed only for an arrow or function literal
visit_mut_var_declarator(w, v, n) ==
    IF is_component_name(n.name) /\ n.init \in {"arrow", "fn"}
    THEN EnterDecl(w, v, n.name)
    ELSE [walk |-> [w EXCEPT !.pc = @ + 1,
                             !.frames = Append(@, [open |-> w.pc, pushed |-> FALSE])],
          visitor |-> v]

\* a return that leaves the pushed name on the stack
LeaveDeclStepKeep(w, v) ==
    [walk |-> [w EXCEPT !.pc = @ + 1, !.frames = SubSeq(@, 1, Len(@) - 1)],
     visitor |-> v]

\* the return of the three handlers above: pop what was pushed
LeaveDeclStep(w, v) ==
    [walk |-> [w EXCEPT !.pc = @ + 1, !.frames = SubSeq(@, 1, Len(@) - 1)],
     visitor |-> IF Last(w.frames).pushed
                 THEN [v EXCEPT !.component_stack = SubSeq(@, 1, Len(@) - 1)]
                 ELSE v]

\* visit_mut_jsx_element, line 226: the children first
EnterJsxStep(w, v) ==
    [walk |-> [w EXCEPT !.pc = @ + 1,
                        !.frames = Append(@, [open |-> w.pc, pushed |-> FALSE])],
     visitor |-> v]

\* visit_mut_jsx_element, line 229: then the element itself
Processed(w, i, done) ==
    [walk |-> [w EXCEPT !.pc = @ + 1,
                        !.frames = SubSeq(@, 1, Len(@) - 1),
                        !.attrs[i] = done.attrs,
                        !.log = Append(@, done.entry),
                        !.stderr = @ \o done.stderr],
     visitor |-> done.visitor]
LeaveJsxAt(u, config, file, w, v, i) ==
    Processed(w, i, process_jsx_element(config, file, v, OutputTree(u, w), i, w.attrs[i]))
LeaveJsxStep(u, config, file, w, v) ==
    LeaveJsxAt(u, config, file, w, v, Last(w.frames).open)

\* every other node: the default visit, which only descends
OtherStep(w, v) == [walk |-> [w EXCEPT !.pc = @ + 1], visitor |-> v]

\* process_transform, lines 64-80: the configuration, the file name, a new visitor
StartStep(u, config, file) ==
    [walk |-> [phase |-> "walking", pc |-> 1, frames |-> << >>, attrs |-> SourceAttrs(u),
               log |-> << >>,
               stderr |-> IF config.verbose THEN << << "Processing", file >> >> ELSE << >>],
     visitor |-> NewVisitor]

\* process_transform, lines 83-87: the walk is over
FinishStep(config, file, w, v) ==
    [walk |-> [w EXCEPT !.phase = "done",
                        !.stderr = IF config.verbose
                                   THEN Append(@, << "Finished", file >>) ELSE @],
     visitor |-> v]

\* a walk that handles an element before its children: the element is handed
\* to process_jsx_element on the way in, and only left on the way out
ProcessedFirst(w, i, done) ==
    [walk |-> [w EXCEPT !.pc = @ + 1,
                        !.frames = Append(@, [open |-> i, pushed |-> FALSE]),
                        !.attrs[i] = done.attrs,
                        !.log = Append(@, done.entry),
                        !.stderr = @ \o done.stderr],
     visitor |-> done.visitor]
StepAtParentFirst(u, config, file, w, v, tok) ==
    CASE tok.k = "fn_decl" -> visit_mut_fn_decl(w, v, tok)
      [] tok.k = "class_decl" -> visit_mut_class_decl(w, v, tok)
      [] tok.k = "var_declarator" -> visit_mut_var_declarator(w, v, tok)
      [] tok.k = "end_decl" -> LeaveDeclStep(w, v)
      [] tok.k = "jsx_open" ->
            ProcessedFirst(w, w.pc, process_jsx_element(config, file, v, u, w.pc, w.attrs[w.pc]))
      [] tok.k = "jsx_close" ->
            [walk |-> [w EXCEPT !.pc = @ + 1, !.frames = SubSeq(@, 1, Len(@) - 1)],
             visitor |-> v]
      [] OTHER -> OtherStep(w, v)

\* the step the walk takes at the token tok
StepAt(u, config, file, w, v, tok) ==
    CASE tok.k = "fn_decl" -> visit_mut_fn_decl(w, v, tok)
      [] tok.k = "class_decl" -> visit_mut_class_decl(w, v, tok)
      [] tok.k = "var_declarator" -> visit_mut_var_declarator(w, v, tok)
      [] tok.k = "end_decl" -> LeaveDeclStep(w, v)
      [] tok.k = "jsx_open" -> EnterJsxStep(w, v)
      [] tok.k = "jsx_close" -> LeaveJsxStep(u, config, file, w, v)
      [] OTHER -> OtherStep(w, v)
TokenStep(u, config, file, w, v) == StepAt(u, config, file, w, v, u[w.pc])

\* a whole pass over u, alone, from a fresh visitor: process_transform
RECURSIVE WalkFrom(_, _, _, _)
WalkFrom(u, config, file, s) ==
    IF s.walk.pc > Len(u) THEN FinishStep(config, file, s.walk, s.visitor)
    ELSE WalkFrom(u, config, file, TokenStep(u, config, file, s.walk, s.visitor))
RunPass(u, config, file) == WalkFrom(u, config, file, StartStep(u, config, file))
process_transform(u, plugin_config, context_filename) ==
    RunPass(u, TransformConfig(plugin_config), TransformFilename(context_filename)).walk

----------------------------------------------------------------------------
(* Calls of the pure functions, on inputs drawn from bounded sets.         *)

\* a string of up to MaxPieces pieces, each piece a word, a separator or both
MaxPieces == 5
Pieces == { <<"a", " ">>, <<"B", "!">>, <<"1", "-">>, <<" ", " ">>, << "U+0130" >> }
RECURSIVE PieceStrings(_)
PieceStrings(n) ==
    IF n = 0 THEN { << >> }
    ELSE LET shorter == PieceStrings(n - 1) IN
         shorter \cup { s \o p : s \in shorter, p \in Pieces }

NormalizeCalls == { [op |-> "normalize_text", s |-> s] : s \in PieceStrings(MaxPieces) }

\* configurations and element contexts for generate_id
s_test == <<"t", "e", "s", "t">>
s_path == <<"/", "s", "r", "c", "/", "L", "o", "g", "i", "n", "F", "o", "r", "m", ".", "t", "s", "x">>
IdConfigs ==
    { [DefaultConfig EXCEPT !.id_prefix = pre, !.hash_ids = h,
                            !.include_component_name = c, !.include_file_path = f] :
        pre \in { s_ui, s_test }, h \in BOOLEAN, c \in BOOLEAN, f \in BOOLEAN }
IdContexts ==
    { [component_name |-> cn, file_path |-> s_path, tag_name |-> tg,
       text_content |-> tx, aria_label |-> None, placeholder |-> ph, title |-> None,
       existing_id |-> ex, element_index |-> 1] :
        cn \in { None, Some(<<"L", "o", "g", "i", "n", "F", "o", "r", "m">>) }, tg \in { t_button, t_a },
        tx \in { None, Some(<<"S", "i", "g", "n", " ", "I", "n">>), Some(<<"?", "!">>) },
        ph \in { None, Some(<<"E", "n", "t", "e", "r", " ", "y", "o", "u", "r", " ", "e", "m", "a", "i", "l">>) },
        ex \in { None, Some(<<"m", "a", "i", "n", "-", "c", "t", "a">>), Some(<< >>) } }
GenerateIdCalls ==
    { [op |-> "generate_id", config |-> config, id_ctx |-> ctx] :
        config \in IdConfigs, ctx \in IdContexts }

\* configurations and element contexts for generate_aliases
MaxMaxAliases == 9
AliasContexts ==
    { [tag_name |-> t_button, text_content |-> tx, aria_label |-> al,
       placeholder |-> ph, title |-> ti, name |-> nm] :
        tx \in { None, Some(<<"S", "i", "g", "n", " ", "I", "n">>), Some(<<" ", "?", "!", " ">>), Some(<<"G", "o">>) },
        al \in { None, Some(<<"L", "o", "g", "i", "n", " ", "b", "u", "t", "t", "o", "n">>), Some(<<"s", "i", "g", "n", " ", "i", "n">>) },
        ph \in { None, Some(<<"C", "l", "i", "c", "k", " ", "t", "o", " ", "s", "i", "g", "n", " ", "i", "n">>) },
        ti \in { None, Some(<<"S", "i", "g", "n", " ", "I", "n">>) },
        nm \in { None, Some(<<"l", "o", "g", "i", "n">>) } }
GenerateAliasesCalls ==
    { [op |-> "generate_aliases",
       config |-> [DefaultConfig EXCEPT !.max_aliases = m], alias_ctx |-> ctx] :
        m \in 0 .. MaxMaxAliases, ctx \in AliasContexts }

\* plugin options: no options, a text that is no JSON object, or a JSON object
\* that gives each of a few keys a well-typed value, an ill-typed one, or none
Object(obj) == Some([kind |-> "object", obj |-> obj])
NotJson == Some([kind |-> "text"])
Supplied ==
    [ idPrefix : { JNull, JStr(s_test), JNum(5) },
      maxAliases : { JNull, JNum(3), JStr(<<"5">>), JNum(0 - 1) },
      hashIds : { JNull, JBool(TRUE), JStr(<<"y", "e", "s">>) },
      elements : { JNull, JArr(<< JStr(t_a) >>), JStr(t_a), JArr(<< JNum(1) >>) },
      colour : { JNull, JBool(TRUE) } ]
\* the object that holds the keys of s that are given
ObjectOf(s, given) == [k \in given |-> s[k]]
OptionObjects ==
    UNION { { Object(ObjectOf(s, given)) : given \in SUBSET DOMAIN s } : s \in Supplied }
ParseCalls ==
    { [op |-> "parse_config", plugin_config |-> o] : o \in { None, NotJson } \cup OptionObjects }

\* component names and component lists for should_skip_component
ComponentNames == { None, Some(<<"O", "n", "l", "y", "T", "h", "i", "s">>), Some(<<"N", "o", "t", "T", "h", "i", "s">>), Some(<<"W", "i", "d", "g", "e", "t">>) }
ComponentLists ==
    { << >>, << <<"O", "n", "l", "y", "T", "h", "i", "s">> >>, << <<"N", "o", "t", "T", "h", "i", "s">> >>, << <<"O", "n", "l", "y", "T", "h", "i", "s">>, <<"N", "o", "t", "T", "h", "i", "s">> >>,
      << <<"N", "o", "t", "T", "h", "i", "s">>, <<"O", "n", "l", "y", "T", "h", "i", "s">> >> }
SkipComponentCalls ==
    { [op |-> "should_skip_component",
       config |-> [DefaultConfig EXCEPT !.only_in_components = only,
                                        !.skip_in_components = skip],
       component_name |-> name] :
        only \in ComponentLists, skip \in ComponentLists, name \in ComponentNames }

\* strings of up to MaxKebabLen characters for to_kebab_case, and the names of
\* the tests
MaxKebabLen == 4
KebabChars == { "a", "B", "1", "-", "U+0130" }
RECURSIVE KebabStrings(_)
KebabStrings(n) ==
    IF n = 0 THEN { << >> }
    ELSE LET shorter == KebabStrings(n - 1) IN
         shorter \cup { Append(s, c) : s \in shorter, c \in KebabChars }
KebabNames ==
    { <<"L", "o", "g", "i", "n", "F", "o", "r", "m">>, <<"M", "y", "C", "o", "m", "p", "o", "n", "e", "n", "t">>, <<"U", "R", "L", "I", "n", "p", "u", "t">>, <<"a", "l", "r", "e", "a", "d", "y", "-", "k", "e", "b", "a", "b">>, <<"w", "i", "t", "h", " ", "s", "p", "a", "c", "e", "s">> }
KebabCalls ==
    { [op |-> "to_kebab_case", s |-> s] : s \in KebabStrings(MaxKebabLen) \cup KebabNames }

\* tags, declared types, placeholders and names for get_semantic_type
DeclaredTypes ==
    { None, Some(<<"e", "m", "a", "i", "l">>), Some(<<"t", "e", "l">>), Some(<<"s", "u", "b", "m", "i", "t">>), Some(<<"t", "e", "x", "t">>), Some(<<"E", "m", "a", "i", "l">>) }
Placeholders ==
    { None, Some(<<"E", "n", "t", "e", "r", " ", "y", "o", "u", "r", " ", "e", "m", "a", "i", "l">>), Some(<<"S", "e", "a", "r", "c", "h", " ", "b", "y", " ", "E", "m", "a", "i", "l">>), Some(<<"P", "a", "s", "s", "w", "o", "r", "d", " ", "/", " ", "S", "E", "A", "R", "C", "H">>),
      Some(<<"T", "e", "l", "e", "p", "h", "o", "n", "e", " ", "o", "r", " ", "s", "e", "a", "r", "c", "h">>), Some(<<"P", "h", "o", "n", "e">>), Some(<<"Y", "o", "u", "r", " ", "n", "a", "m", "e">>) }
FieldNames ==
    { None, Some(<<"u", "s", "e", "r", "E", "m", "a", "i", "l">>), Some(<<"p", "a", "s", "s", "w", "o", "r", "d", "_", "e", "m", "a", "i", "l">>), Some(<<"P", "a", "s", "s", "w", "o", "r", "d">>), Some(<<"t", "e", "l">>) }
SemanticTypeCalls ==
    { [op |-> "get_semantic_type", tag_name |-> tg, input_type |-> ty,
       placeholder |-> ph, name |-> nm] :
        tg \in { t_input, t_select }, ty \in DeclaredTypes, ph \in Placeholders,
        nm \in FieldNames }

\* normalized phrases for get_synonyms: every trigger and every synonym of the
\* table, and phrases around them
SynonymPhrases ==
    UNION { Range(synonym_map[g].triggers) \cup Range(synonym_map[g].all_synonyms) :
            g \in DOMAIN synonym_map }
    \cup { << >>, <<"h", "e", "l", "l", "o">>, <<"s", "i", "g", "n", " ", "i", "n", " ", "n", "o", "w">>, <<"p", "l", "e", "a", "s", "e", " ", "l", "o", "g", " ", "o", "u", "t">>, <<"c", "l", "i", "c", "k", " ", "m", "e">>,
           <<"s", "h", "o", "w", " ", "l", "e", "s", "s">>, <<"s", "a", "v", "e", " ", "a", "s", " ", "p", "d", "f">>, <<"m", "y", " ", "p", "r", "o", "f", "i", "l", "e">> }
SynonymCalls == { [op |-> "get_synonyms", text |-> t] : t \in SynonymPhrases }

NoCall == [op |-> "none"]
\* no runtime is part of the run
NoRegistry ==
    elements = << >> /\ lock = << >> /\ task = << >> /\ registered = << >> /\ window = << >>
FnCalls ==
    NormalizeCalls \cup GenerateIdCalls \cup GenerateAliasesCalls \cup ParseCalls
    \cup SkipComponentCalls \cup KebabCalls \cup SemanticTypeCalls \cup SynonymCalls

InitFn ==
    /\ call \in FnCalls
    /\ ret = None
    /\ unit = << >> /\ options = << >> /\ filename = << >> /\ walk = << >> /\ visitor = << >>
    /\ NoRegistry

Return(value) ==
    /\ IsNone(ret)
    /\ ret' = Some(value)
    /\ UNCHANGED <<call, passVars, regVars>>

CallNormalizeText ==
    /\ call.op = "normalize_text"
    /\ Return(normalize_text(call.s))

CallGenerateId ==
    /\ call.op = "generate_id"
    /\ Return(generate_id(call.config, call.id_ctx))

CallGenerateAliases ==
    /\ call.op = "generate_aliases"
    /\ Return(generate_aliases(call.config, call.alias_ctx))

CallParseConfig ==
    /\ call.op = "parse_config"
    /\ Return(TransformConfig(call.plugin_config))

CallShouldSkipComponent ==
    /\ call.op = "should_skip_component"
    /\ Return(should_skip_component(call.config, call.component_name))

CallToKebabCase ==
    /\ call.op = "to_kebab_case"
    /\ Return(to_kebab_case(call.s))

CallGetSemanticType ==
    /\ call.op = "get_semantic_type"
    /\ Return(get_semantic_type(call.tag_name, call.input_type, call.placeholder, call.name))

CallGetSynonyms ==
    /\ call.op = "get_synonyms"
    /\ Return(get_synonyms(call.text))

NextFn ==
    \/ CallNormalizeText
    \/ CallGenerateId
    \/ CallGenerateAliases
    \/ CallParseConfig
    \/ CallShouldSkipComponent
    \/ CallToKebabCase
    \/ CallGetSemanticType
    \/ CallGetSynonyms
SpecFn == InitFn /\ [][NextFn]_vars

----------------------------------------------------------------------------
(* The passes.  The host calls process_transform once per source unit;     *)
(* pass p walks unit[p] with the visitor it constructed.                   *)

Passes == {1, 2}

\* one visitor instance for every pass
VisitorOfShared(p) == 1
\* the visitor instance pass p owns: process_transform constructs one per call
VisitorOf(p) == p

Config(p) == TransformConfig(options[p])
File(p) == TransformFilename(filename[p])
Token(p) == unit[p][walk[p].pc]
Walking(p) == walk[p].phase = "walking" /\ walk[p].pc <= Len(unit[p])
Apply(p, step) ==
    /\ walk' = [walk EXCEPT ![p] = step.walk]
    /\ visitor' = [visitor EXCEPT ![VisitorOf(p)] = step.visitor]
    /\ UNCHANGED <<unit, options, filename, call, ret, regVars>>

Start(p) ==
    /\ walk[p].phase = "idle"
    /\ Apply(p, StartStep(unit[p], Config(p), File(p)))

VisitFnDecl(p) ==
    /\ Walking(p) /\ Token(p).k = "fn_decl"
    /\ Apply(p, visit_mut_fn_decl(walk[p], visitor[VisitorOf(p)], Token(p)))

VisitVarDeclarator(p) ==
    /\ Walking(p) /\ Token(p).k = "var_declarator"
    /\ Apply(p, visit_mut_var_declarator(walk[p], visitor[VisitorOf(p)], Token(p)))

VisitClassDecl(p) ==
    /\ Walking(p) /\ Token(p).k = "class_decl"
    /\ Apply(p, visit_mut_class_decl(walk[p], visitor[VisitorOf(p)], Token(p)))

LeaveDecl(p) ==
    /\ Walking(p) /\ Token(p).k = "end_decl"
    /\ Apply(p, LeaveDeclStep(walk[p], visitor[VisitorOf(p)]))

EnterJsxElement(p) ==
    /\ Walking(p) /\ Token(p).k = "jsx_open"
    /\ Apply(p, EnterJsxStep(walk[p], visitor[VisitorOf(p)]))

LeaveJsxElement(p) ==
    /\ Walking(p) /\ Token(p).k = "jsx_close"
    /\ Apply(p, LeaveJsxStep(unit[p], Config(p), File(p), walk[p], visitor[VisitorOf(p)]))

VisitOther(p) ==
    /\ Walking(p)
    /\ Token(p).k \notin {"fn_decl", "var_declarator", "class_decl", "end_decl",
                          "jsx_open", "jsx_close"}
    /\ Apply(p, OtherStep(walk[p], visitor[VisitorOf(p)]))

Finish(p) ==
    /\ walk[p].phase = "walking" /\ walk[p].pc > Len(unit[p])
    /\ Apply(p, FinishStep(Config(p), File(p), walk[p], visitor[VisitorOf(p)]))

\* the host hands the tree pass 1 produced to a second call of process_transform,
\* with the same options and file name; the call runs to its end
RerunOn(tree, result) ==
    /\ unit' = [unit EXCEPT ![2] = tree]
    /\ walk' = [walk EXCEPT ![2] = result.walk]
    /\ visitor' = [visitor EXCEPT ![VisitorOf(2)] = result.visitor]
    /\ UNCHANGED <<options, filename, call, ret, regVars>>
RerunTree(tree) == RerunOn(tree, RunPass(tree, Config(2), File(2)))
Rerun ==
    /\ walk[1].phase = "done" /\ walk[2].phase = "absent"
    /\ RerunTree(OutputTree(unit[1], walk[1]))

Step(p) ==
    \/ Start(p)
    \/ VisitFnDecl(p)
    \/ VisitVarDeclarator(p)
    \/ VisitClassDecl(p)
    \/ LeaveDecl(p)
    \/ EnterJsxElement(p)
    \/ LeaveJsxElement(p)
    \/ VisitOther(p)
    \/ Finish(p)

----------------------------------------------------------------------------
(* Source units: up to n items, each a markup element or the opening or    *)
(* closing of a declaration; declarations left open are closed at the end. *)

s_Home == <<"H", "o", "m", "e">>
t_link == <<"l", "i", "n", "k">>
c_OnlyThis == <<"O", "n", "l", "y", "T", "h", "i", "s">>
c_NotThis == <<"N", "o", "t", "T", "h", "i", "s">>
c_Widget == <<"W", "i", "d", "g", "e", "t">>

\* <a>Home</a>, <link title="Home"/>, <a title="Home" data-ui-id="kept"/>
ElementItems ==
    { << JsxOpen("ident", t_a, << >>), JsxText(s_Home), JsxClose >>,
      << JsxOpen("ident", t_link, << StrAttr(<<"t", "i", "t", "l", "e">>, s_Home) >>), JsxClose >>,
      << JsxOpen("ident", t_a, << StrAttr(<<"t", "i", "t", "l", "e">>, s_Home),
                                  StrAttr(default_id_attribute, <<"k", "e", "p", "t">>) >>), JsxClose >> }
\* function OnlyThis() {, const NotThis = () => {, class Widget {,
\* const OnlyThis = memo({, function helper() {
DeclItems ==
    { << FnDecl(c_OnlyThis) >>, << VarDeclarator(c_NotThis, "arrow") >>, << ClassDecl(c_Widget) >>,
      << VarDeclarator(c_OnlyThis, "other") >>, << FnDecl(<<"h", "e", "l", "p", "e", "r">>) >> }

\* the declarations a unit of the concurrent passes may hold
ConcDeclItems == { << FnDecl(c_OnlyThis) >>, << VarDeclarator(c_NotThis, "arrow") >> }

Extensions(x, decls) ==
    { [toks |-> x.toks \o e, depth |-> x.depth, n |-> x.n + 1] : e \in ElementItems }
    \cup { [toks |-> x.toks \o d, depth |-> x.depth + 1, n |-> x.n + 1] : d \in decls }
    \cup (IF x.depth > 0
          THEN { [toks |-> Append(x.toks, EndDecl), depth |-> x.depth - 1, n |-> x.n + 1] }
          ELSE {})
RECURSIVE UnitPrefixes(_, _)
UnitPrefixes(n, decls) ==
    IF n = 0 THEN { [toks |-> << >>, depth |-> 0, n |-> 0] }
    ELSE LET shorter == UnitPrefixes(n - 1, decls) IN
         shorter \cup UNION { Extensions(x, decls) : x \in { y \in shorter : y.n = n - 1 } }
Units(n, decls) ==
    { x.toks \o [i \in 1 .. x.depth |-> EndDecl] : x \in UnitPrefixes(n, decls) }

\* plugin options: JSON objects
TagsALink == JArr(<< JStr(t_a), JStr(t_link) >>)
PassOptions ==
    { Object("elements" :> TagsALink),
      Object("elements" :> TagsALink @@ "onlyInComponents" :> JArr(<< JStr(c_OnlyThis) >>)),
      Object("elements" :> TagsALink @@ "skipInComponents" :> JArr(<< JStr(c_NotThis) >>)
             @@ "skipExisting" :> JBool(FALSE) @@ "hashIds" :> JBool(TRUE)),
      Object("elements" :> TagsALink @@ "generateAliases" :> JBool(FALSE)) }


MaxItems == 3

\* <a>Home</a>  function OnlyThis() { <a>Home</a> }
\* const NotThis = () => { <link title="Home"/> }
\* class Widget { <a title="Home" data-ui-id="kept"/> }
SampleUnit ==
    << JsxOpen("ident", t_a, << >>), JsxText(s_Home), JsxClose,
       FnDecl(c_OnlyThis), JsxOpen("ident", t_a, << >>), JsxText(s_Home), JsxClose, EndDecl,
       VarDeclarator(c_NotThis, "arrow"),
       JsxOpen("ident", t_link, << StrAttr(<<"t", "i", "t", "l", "e">>, s_Home) >>), JsxClose, EndDecl,
       ClassDecl(c_Widget),
       JsxOpen("ident", t_a, << StrAttr(<<"t", "i", "t", "l", "e">>, s_Home),
                                StrAttr(default_id_attribute, <<"k", "e", "p", "t">>) >>), JsxClose,
       EndDecl >>


\* <a>Home</a> <a>Home</a> <link title="Home"/> <link title="Home"/>
CollidingUnit ==
    << JsxOpen("ident", t_a, << >>), JsxText(s_Home), JsxClose,
       JsxOpen("ident", t_a, << >>), JsxText(s_Home), JsxClose,
       JsxOpen("ident", t_link, << StrAttr(<<"t", "i", "t", "l", "e">>, s_Home) >>), JsxClose,
       JsxOpen("ident", t_link, << StrAttr(<<"t", "i", "t", "l", "e">>, s_Home) >>), JsxClose >>

\* function OnlyThis() { <a title="Home">Home <a>Home</a> <link><a/></link></a>
\*                        <Menu.Item/> <Widget/> <form/> }  <a/>
NestedUnit ==
    << FnDecl(c_OnlyThis),
       JsxOpen("ident", t_a, << StrAttr(<<"t", "i", "t", "l", "e">>, s_Home) >>), JsxText(s_Home),
       JsxOpen("ident", t_a, << >>), JsxText(s_Home), JsxClose,
       JsxOpen("ident", t_link, << >>), JsxOpen("ident", t_a, << >>), JsxClose, JsxClose,
       JsxClose,
       JsxOpen("member", <<"M", "e", "n", "u", ".", "I", "t", "e", "m">>, << >>), JsxClose,
       JsxOpen("ident", c_Widget, << >>), JsxClose,
       JsxOpen("ident", t_form, << >>), JsxClose,
       EndDecl,
       JsxOpen("ident", t_a, << >>), JsxClose >>

\* function helper() { <a/> }
\* function OnlyThis() { const NotThis = () => { <a>Home</a> }  <a/> }
\* const OnlyThis = memo({ <a/> })  <a/>
ScopedUnit ==
    << FnDecl(<<"h", "e", "l", "p", "e", "r">>), JsxOpen("ident", t_a, << >>), JsxClose, EndDecl,
       FnDecl(c_OnlyThis),
       VarDeclarator(c_NotThis, "arrow"),
       JsxOpen("ident", t_a, << >>), JsxText(s_Home), JsxClose, EndDecl,
       JsxOpen("ident", t_a, << >>), JsxClose,
       EndDecl,
       VarDeclarator(c_OnlyThis, "other"), JsxOpen("ident", t_a, << >>), JsxClose, EndDecl,
       JsxOpen("ident", t_a, << >>), JsxClose >>

FixedUnits == { SampleUnit, CollidingUnit, NestedUnit, ScopedUnit }

InitPass ==
    /\ \E u \in Units(MaxItems, DeclItems) \cup FixedUnits : unit = << u, << >> >>
    /\ \E o \in PassOptions : options = << o, o >>
    /\ filename = << Some(s_path), Some(s_path) >>
    /\ walk = << Idle, Absent >>
    /\ visitor = << NewVisitor, NewVisitor >>
    /\ call = NoCall /\ ret = None
    /\ NoRegistry

NextPass == Step(1) \/ Rerun
SpecPass == InitPass /\ [][NextPass]_vars


----------------------------------------------------------------------------
(* Concurrent passes: the host transforms two source units at once, and    *)
(* the steps of the two walks interleave in any order.                     *)

MaxConcItems == 2

\* class Widget { <a>Home</a> }  <link title="Home"/>
OtherUnit ==
    << ClassDecl(c_Widget), JsxOpen("ident", t_a, << >>), JsxText(s_Home), JsxClose, EndDecl,
       JsxOpen("ident", t_link, << StrAttr(<<"t", "i", "t", "l", "e">>, s_Home) >>), JsxClose >>

\* the same options with the verbose flag set
Verbose(o) == Object(Unwrap(o).obj @@ "verbose" :> JBool(TRUE))

InitConc ==
    /\ \E u \in Units(MaxConcItems, ConcDeclItems) : \E v \in { u, OtherUnit } : unit = << u, v >>
    /\ \E o \in PassOptions : \E q \in { o, Verbose(o) } : options = << o, q >>
    /\ filename = << Some(s_path), Some(s_path) >>
    /\ walk = << Idle, Idle >>
    /\ visitor = << NewVisitor, NewVisitor >>
    /\ call = NoCall /\ ret = None
    /\ NoRegistry

NextConc == Step(1) \/ Step(2)
SpecConc == InitConc /\ [][NextConc]_vars

----------------------------------------------------------------------------
(* main.rs: the runtime registry of the example application.  Each request *)
(* is served by a task; a handler takes the RwLock around the registry at  *)
(* its first await and holds it until it returns, and the tasks interleave *)
(* between the steps of their handlers.                                    *)

Tasks == {1, 2}

r_home == <<"u", "i", "-", "h", "o", "m", "e", "-", "l", "i", "n", "k">>
r_sign == <<"u", "i", "-", "s", "i", "g", "n", "-", "i", "n", "-", "b", "u", "t", "t", "o", "n">>
ElementIds == { r_home, r_sign }

\* RegisteredElement, its state reduced to the text it shows
RegisteredElement(id, element_type, label) ==
    [id |-> id, element_type |-> element_type, label |-> label]
NoElement == RegisteredElement(<< >>, << >>, None)
\* the elements the frontend registers: each identifier with or without a label
FrontendElements ==
    { RegisteredElement(r_home, s_link, None), RegisteredElement(r_home, s_link, Some(s_ui)),
      RegisteredElement(r_sign, t_button, None), RegisteredElement(r_sign, t_button, Some(s_ui)) }

\* ActionRequest: the action and its params (null when the body gives none)
ActionRequest(action, params) == [action |-> action, params |-> params]
NoAction == ActionRequest(<< >>, JNull)
ActionRequests ==
    { ActionRequest(<<"c", "l", "i", "c", "k">>, JNull), ActionRequest(<<"t", "y", "p", "e">>, JStr(s_Home)) }

\* the requests: the two Tauri commands and the four routes of the server
Requests ==
    { [op |-> "register_element", id |-> e.id, element |-> e, request |-> NoAction] :
          e \in FrontendElements }
    \cup { [op |-> o, id |-> id, element |-> NoElement, request |-> NoAction] :
              o \in {"unregister_element", "get_element"}, id \in ElementIds }
    \cup { [op |-> o, id |-> << >>, element |-> NoElement, request |-> NoAction] :
              o \in {"list_elements", "health"} }
    \cup { [op |-> "element_action", id |-> id, element |-> NoElement, request |-> r] :
              id \in ElementIds, r \in ActionRequests }

NoReply == [status |-> "none", data |-> << >>]
IdleTask == [pc |-> "idle", op |-> "none", id |-> << >>, element |-> NoElement,
             request |-> NoAction, reply |-> NoReply]

\* AppState::new, and no request under way
InitReg ==
    /\ elements = << >>
    /\ lock = [writer |-> 0, readers |-> {}]
    /\ task = [t \in Tasks |-> IdleTask]
    /\ registered = [id \in ElementIds |-> None]
    /\ window = None
    /\ unit = << >> /\ options = << >> /\ filename = << >> /\ walk = << >> /\ visitor = << >>
    /\ call = NoCall /\ ret = None

\* Vec::retain(|e| e.id != id)
RECURSIVE RetainOthers(_, _)
RetainOthers(elems, id) ==
    IF elems = << >> THEN << >>
    ELSE (IF Head(elems).id /= id THEN << Head(elems) >> ELSE << >>)
         \o RetainOthers(Tail(elems), id)

\* a find that takes the first element whatever its identifier
FindFirst(elems, id) == IF elems = << >> THEN None ELSE Some(Head(elems))
\* Iterator::find(|e| e.id == id)
RECURSIVE Find(_, _)
Find(elems, id) ==
    IF elems = << >> THEN None
    ELSE IF Head(elems).id = id THEN Some(Head(elems))
    ELSE Find(Tail(elems), id)

\* the frontend or a client sends a request; a task starts to serve it
Invoke(t) ==
    /\ task[t].pc \in {"idle", "done"}
    /\ \E req \in Requests :
          task' = [task EXCEPT ![t] = [pc |-> "start", op |-> req.op, id |-> req.id,
                                       element |-> req.element, request |-> req.request,
                                       reply |-> NoReply]]
    /\ UNCHANGED <<elements, lock, registered, window, passVars, call, ret>>

\* state.elements.write().await, lines 174 and 187
AcquireWrite(t) ==
    /\ task[t].pc = "start" /\ task[t].op \in {"register_element", "unregister_element"}
    /\ lock.writer = 0 /\ lock.readers = {}
    /\ lock' = [lock EXCEPT !.writer = t]
    /\ task' = [task EXCEPT ![t].pc = "locked"]
    /\ UNCHANGED <<elements, registered, window, passVars, call, ret>>

\* a read access that does not wait for the writer
AcquireReadAnyway(t) ==
    /\ task[t].pc = "start" /\ task[t].op \in {"get_element", "list_elements"}
    /\ lock' = [lock EXCEPT !.readers = @ \cup {t}]
    /\ task' = [task EXCEPT ![t].pc = "locked"]
    /\ UNCHANGED <<elements, registered, window, passVars, call, ret>>

\* state.elements.read().await, lines 86 and 99
AcquireRead(t) ==
    /\ task[t].pc = "start" /\ task[t].op \in {"get_element", "list_elements"}
    /\ lock.writer = 0
    /\ lock' = [lock EXCEPT !.readers = @ \cup {t}]
    /\ task' = [task EXCEPT ![t].pc = "locked"]
    /\ UNCHANGED <<elements, registered, window, passVars, call, ret>>

\* register_element, line 176: remove an element with the same identifier
RegisterRetain(t) ==
    /\ task[t].pc = "locked" /\ task[t].op = "register_element"
    /\ elements' = RetainOthers(elements, task[t].element.id)
    /\ task' = [task EXCEPT ![t].pc = "retained"]
    /\ UNCHANGED <<lock, registered, window, passVars, call, ret>>

\* register_element, lines 177-179: push the element, return Ok and drop the guard
RegisterPush(t) ==
    /\ task[t].pc = "retained" /\ task[t].op = "register_element"
    /\ elements' = Append(elements, task[t].element)
    /\ registered' = [registered EXCEPT ![task[t].id] = Some(task[t].element)]
    /\ lock' = [lock EXCEPT !.writer = 0]
    /\ task' = [task EXCEPT ![t].pc = "done", ![t].reply = [status |-> "ok", data |-> << >>]]
    /\ UNCHANGED <<window, passVars, call, ret>>

\* unregister_element, lines 188-190: remove the element, return Ok and drop the guard
UnregisterRetain(t) ==
    /\ task[t].pc = "locked" /\ task[t].op = "unregister_element"
    /\ elements' = RetainOthers(elements, task[t].id)
    /\ registered' = [registered EXCEPT ![task[t].id] = None]
    /\ lock' = [lock EXCEPT !.writer = 0]
    /\ task' = [task EXCEPT ![t].pc = "done", ![t].reply = [status |-> "ok", data |-> << >>]]
    /\ UNCHANGED <<window, passVars, call, ret>>

\* get_element, lines 100-108: the element found, or NOT_FOUND
GetElementReply(found) ==
    IF IsSome(found) THEN [status |-> "found", data |-> found]
    ELSE [status |-> "not_found", data |-> << >>]
GetElement(t) ==
    /\ task[t].pc = "locked" /\ task[t].op = "get_element"
    /\ lock' = [lock EXCEPT !.readers = @ \ {t}]
    /\ task' = [task EXCEPT ![t].pc = "done",
                            ![t].reply = GetElementReply(Find(elements, task[t].id))]
    /\ UNCHANGED <<elements, registered, window, passVars, call, ret>>

\* list_elements, lines 87-91: a copy of the registry
ListElements(t) ==
    /\ task[t].pc = "locked" /\ task[t].op = "list_elements"
    /\ lock' = [lock EXCEPT !.readers = @ \ {t}]
    /\ task' = [task EXCEPT ![t].pc = "done",
                            ![t].reply = [status |-> "list", data |-> elements]]
    /\ UNCHANGED <<elements, registered, window, passVars, call, ret>>

\* health, lines 74-80
Health(t) ==
    /\ task[t].pc = "start" /\ task[t].op = "health"
    /\ task' = [task EXCEPT ![t].pc = "done",
                            ![t].reply = [status |-> "ok", data |-> << <<"o", "k">> >>]]
    /\ UNCHANGED <<elements, lock, registered, window, passVars, call, ret>>

\* element_action, lines 123-130: the event, emitted when the state holds a window
ActionEvent(id, request) ==
    [event |-> <<"u", "i", "-", "b", "r", "i", "d", "g", "e", "-", "a", "c", "t", "i", "o", "n">>,
     payload |-> [elementId |-> id, action |-> request.action, params |-> request.params]]
Emit(win, event) == IF IsSome(win) THEN Some(Append(Unwrap(win), event)) ELSE win
\* element_action, lines 133-141: the acknowledgement
ActionReply(id, request) ==
    [status |-> "ok",
     data |-> << [message |-> <<"A", "c", "t", "i", "o", "n", " ", "'">> \o request.action \o <<"'", " ", "e", "x", "e", "c", "u", "t", "e", "d", " ", "o", "n", " ", "e", "l", "e", "m", "e", "n", "t", " ", "'">>
                               \o id \o <<"'">>,
                  params |-> request.params] >>]
ElementAction(t) ==
    /\ task[t].pc = "start" /\ task[t].op = "element_action"
    /\ window' = Emit(window, ActionEvent(task[t].id, task[t].request))
    /\ task' = [task EXCEPT ![t].pc = "done",
                            ![t].reply = ActionReply(task[t].id, task[t].request)]
    /\ UNCHANGED <<elements, lock, registered, passVars, call, ret>>

Serve(t) ==
    \/ Invoke(t)
    \/ AcquireWrite(t)
    \/ AcquireRead(t)
    \/ RegisterRetain(t)
    \/ RegisterPush(t)
    \/ UnregisterRetain(t)
    \/ GetElement(t)
    \/ ListElements(t)
    \/ Health(t)
    \/ ElementAction(t)

NextReg == Serve(1) \/ Serve(2)
SpecReg == InitReg /\ [][NextReg]_vars

----------------------------------------------------------------------------
(* Properties of a pass.                                                   *)

\* the log entries of pass p that stand for instrumented elements
Instrumented(p) == { k \in DOMAIN walk[p].log : walk[p].log[k].outcome = "instrument" }
\* log entries whose element has a tag of the configured tag set
Eligible(p) ==
    { k \in DOMAIN walk[p].log :
        walk[p].log[k].outcome \in {"instrument", "skip_existing", "skip_component"} }
SameTagUpTo(p, k) == { j \in 1 .. k : walk[p].log[j].tag = walk[p].log[k].tag }

\* C1: within one pass, no two instrumented elements end up with the same final
\* identifier
C1_FinalIdsUnique ==
    \A p \in Passes : \A j, k \in Instrumented(p) :
        j /= k => walk[p].log[j].final_id /= walk[p].log[k].final_id

C3_SecondPassChangesNothing ==
    (walk[2].phase = "done" /\ options[2] = options[1] /\ Config(2).skip_existing) =>
        /\ walk[2].attrs = walk[1].attrs
        /\ OutputTree(unit[2], walk[2]) = unit[2]
        /\ Len(walk[2].log) = Len(walk[1].log)
        /\ \A k \in DOMAIN walk[2].log :
              walk[2].log[k].outcome =
                 IF k \in Instrumented(1) THEN "skip_existing" ELSE walk[1].log[k].outcome

\* the second pass is over and has skipped an element the first pass instrumented
C3_Witness ==
    /\ walk[2].phase = "done" /\ options[2] = options[1] /\ Config(2).skip_existing
    /\ \E k \in Instrumented(1) : walk[2].log[k].outcome = "skip_existing"
    /\ \E k \in DOMAIN walk[1].log : walk[1].log[k].outcome = "skip_component"

\* the opener at j is a declaration that names a component
NamesComponent(tok) ==
    \/ tok.k \in {"fn_decl", "class_decl"} /\ IsUppercase(Head(tok.name))
    \/ tok.k = "var_declarator" /\ tok.init \in {"arrow", "fn"} /\ IsUppercase(Head(tok.name))
\* the declarations around the token at i that name a component
Enclosing(u, i) ==
    { j \in 1 .. i - 1 : IsOpener(u[j]) /\ u[j].k /= "jsx_open" /\ u[j].k /= "other_open"
                         /\ NamesComponent(u[j]) /\ MatchClose(u, j) > i }
\* the element opened at i lies in a component of the list, innermost
InListedComponent(u, i, list) ==
    /\ Enclosing(u, i) /= {}
    /\ \E j \in Enclosing(u, i) :
          /\ \A h \in Enclosing(u, i) : h <= j
          /\ SeqContains(list, u[j].name)

\* C4: with a non-empty allow-list, only elements whose innermost enclosing
\* component is on the list carry attributes added by the pass; elements in
\* another component, or in none, are untouched
C4_AllowListExclusive ==
    \A p \in Passes :
        (walk[p].phase \in {"walking", "done"} /\ Config(p).only_in_components /= << >>) =>
            \A i \in DOMAIN unit[p] :
                (unit[p][i].k = "jsx_open"
                 /\ ~InListedComponent(unit[p], i, Config(p).only_in_components)) =>
                    /\ walk[p].attrs[i] = unit[p][i].attrs
                    /\ \A k \in Instrumented(p) : walk[p].log[k].open /= i

\* a finished pass with an allow-list that instrumented one element and left
\* alone one in another component and one outside every component
C4_Witness ==
    /\ walk[1].phase = "done" /\ Config(1).only_in_components /= << >>
    /\ Instrumented(1) /= {}
    /\ \E k \in DOMAIN walk[1].log :
          walk[1].log[k].outcome = "skip_component" /\ IsNone(walk[1].log[k].component)
    /\ \E k \in DOMAIN walk[1].log :
          walk[1].log[k].outcome = "skip_component" /\ IsSome(walk[1].log[k].component)

\* C5: the annotations a pass produces for its unit are those of the unit
\* transformed alone, whatever the other pass does in between
C5_PassIsIsolated ==
    \A p \in Passes :
        walk[p].phase = "done" =>
            /\ walk[p].attrs = process_transform(unit[p], options[p], filename[p]).attrs
            /\ walk[p].log = process_transform(unit[p], options[p], filename[p]).log

\* pass 1 is over and has instrumented elements while pass 2, over another unit,
\* is under way with identifiers issued
C5_Witness ==
    /\ walk[1].phase = "done" /\ Instrumented(1) /= {}
    /\ unit[1] /= unit[2]
    /\ walk[2].phase = "walking" /\ visitor[2].processed_ids /= {}
    /\ visitor[2].component_stack /= << >>

\* the two passes run over the same tree, with the same file name and the same
\* configuration but for the verbose flag
SameRun ==
    /\ unit[1] = unit[2] /\ filename[1] = filename[2]
    /\ [Config(1) EXCEPT !.verbose = FALSE] = [Config(2) EXCEPT !.verbose = FALSE]

\* C6: two runs over the same tree with the same configuration and file name
\* attach the same identifier, semantic type and aliases to every element, also
\* when identifiers are hashed and the verbose flag differs
C6_Deterministic ==
    (walk[1].phase = "done" /\ walk[2].phase = "done" /\ SameRun) =>
        /\ walk[1].attrs = walk[2].attrs
        /\ walk[1].log = walk[2].log

\* two finished runs with hashed identifiers, one verbose and one not, that
\* instrumented two elements
C6_Witness ==
    /\ walk[1].phase = "done" /\ walk[2].phase = "done" /\ SameRun
    /\ Config(1).hash_ids /\ Config(1).verbose /= Config(2).verbose
    /\ Cardinality(Instrumented(1)) >= 2
    /\ walk[1].stderr /= walk[2].stderr

----------------------------------------------------------------------------
(* Properties of the pure functions.                                       *)

Returned(op) == call.op = op /\ IsSome(ret)

\* the configuration a field-by-field fallback would give: each field is the
\* supplied value when the key is given with a well-typed value, else the default
FieldwiseField(obj, i) ==
    IF ConfigFields[i].key \in DOMAIN obj
       /\ IsSome(DeserializeValue(ConfigFields[i].type, obj[ConfigFields[i].key]))
    THEN Unwrap(DeserializeValue(ConfigFields[i].type, obj[ConfigFields[i].key]))
    ELSE DefaultConfig[ConfigFields[i].field]
Fieldwise(plugin_config) ==
    IF IsSome(plugin_config) /\ Unwrap(plugin_config).kind = "object"
    THEN [f \in DOMAIN DefaultConfig |->
            FieldwiseField(Unwrap(plugin_config).obj,
                           CHOOSE i \in DOMAIN ConfigFields : ConfigFields[i].field = f)]
    ELSE DefaultConfig

\* C7: the configuration a pass uses falls back field by field: a field with a
\* malformed value takes its default, the other supplied fields keep their
\* values, absent fields take their defaults
C7_FallbackFieldByField ==
    Returned("parse_config") => Unwrap(ret) = Fieldwise(call.plugin_config)

IsHexDigit(c) == \E k \in DOMAIN HexDigits : HexDigits[k] = c

\* C8: with hashing set, generate_id returns the configured prefix, the
\* separator and eight hexadecimal digits that depend on the assembled
\* identifier only
C8_HashedIdHasConfiguredPrefix ==
    (Returned("generate_id") /\ call.config.hash_ids) =>
        /\ Len(Unwrap(ret)) = Len(call.config.id_prefix) + 9
        /\ SubSeq(Unwrap(ret), 1, Len(call.config.id_prefix) + 1)
              = call.config.id_prefix \o s_dash
        /\ \A k \in Len(call.config.id_prefix) + 2 .. Len(Unwrap(ret)) :
              IsHexDigit(Unwrap(ret)[k])
        /\ \A c \in GenerateIdCalls :
              (c.config.hash_ids
               /\ AssembledId(c.config, c.id_ctx) = AssembledId(call.config, call.id_ctx)) =>
                  SubSeq(generate_id(c.config, c.id_ctx), Len(c.config.id_prefix) + 2,
                         Len(c.config.id_prefix) + 9)
                     = SubSeq(Unwrap(ret), Len(call.config.id_prefix) + 2,
                              Len(call.config.id_prefix) + 9)

IsPrefix(s, t) == Len(s) <= Len(t) /\ SubSeq(t, 1, Len(s)) = s

\* C9: the alias list is no longer than the configured maximum and is a prefix
\* of the list returned under every larger maximum
C9_AliasesTruncatedPrefix ==
    Returned("generate_aliases") =>
        /\ Len(Unwrap(ret)) <= call.config.max_aliases
        /\ \A m \in call.config.max_aliases + 1 .. MaxMaxAliases + 1 :
              IsPrefix(Unwrap(ret),
                       generate_aliases([call.config EXCEPT !.max_aliases = m],
                                        call.alias_ctx))

\* a call whose list was cut: a larger maximum returns more
C9_Witness ==
    /\ Returned("generate_aliases")
    /\ call.config.max_aliases >= 2
    /\ Len(Unwrap(ret)) = call.config.max_aliases
    /\ Len(generate_aliases([call.config EXCEPT !.max_aliases = MaxMaxAliases + 1],
                            call.alias_ctx)) > call.config.max_aliases

\* the maximal runs of alphanumeric characters of s from position i on, run
\* being the run under way
RECURSIVE AlnumRuns(_, _, _)
AlnumRuns(s, i, run) ==
    IF i > Len(s) THEN (IF run = << >> THEN << >> ELSE << run >>)
    ELSE IF IsAlphanumeric(s[i]) THEN AlnumRuns(s, i + 1, Append(run, s[i]))
    ELSE (IF run = << >> THEN << >> ELSE << run >>) \o AlnumRuns(s, i + 1, << >>)
\* the words of a descriptor: the alphanumeric runs of the lowercased source
Words(s) == AlnumRuns(ToLowercase(s), 1, << >>)
CountOf(s, c) == Cardinality({ k \in DOMAIN s : s[k] = c })

\* C10: the descriptor is the first four words of the lowercased source, every
\* other character a word break, joined by the separator with no empty word
C10_DescriptorAtMostFourWords ==
    Returned("normalize_text") =>
        /\ Unwrap(ret) = Join(SubSeq(Words(call.s), 1,
                                     IF Len(Words(call.s)) < 4 THEN Len(Words(call.s)) ELSE 4),
                              s_dash)
        /\ CountOf(Unwrap(ret), "-") <= 3
        /\ Unwrap(ret) /= << >> => Head(Unwrap(ret)) /= "-" /\ Last(Unwrap(ret)) /= "-"
        /\ \A k \in 1 .. Len(Unwrap(ret)) - 1 :
              ~(Unwrap(ret)[k] = "-" /\ Unwrap(ret)[k + 1] = "-")

\* a source of more than four words, with uppercase letters, cut to four
C10_Witness ==
    /\ Returned("normalize_text")
    /\ Len(Words(call.s)) > 4
    /\ \E k \in DOMAIN call.s : IsUppercase(call.s[k])
    /\ CountOf(Unwrap(ret), "-") = 3

----------------------------------------------------------------------------
(* Properties of the attachment, the collision policy and the order of     *)
(* the walk.                                                               *)

\* the log entries of pass p for the element opened at i
EntriesAt(p, i) == { k \in Instrumented(p) : walk[p].log[k].open = i }
\* the attributes the pass attaches for the log entry e, in order
Attached(config, e) ==
    << StrAttr(config.id_attribute, e.final_id),
       StrAttr(config.type_attribute, e.semantic_type) >>
    \o (IF config.generate_aliases /\ e.aliases /= << >>
        THEN << StrAttr(config.aliases_attribute, Join(e.aliases, <<",">>)) >>
        ELSE << >>)

\* C11: the attribute list of an instrumented element is its original list, in
\* the original order, followed by the identifier attribute, the semantic-type
\* attribute and, only when alias generation is on and the alias list is not
\* empty, the aliases attribute; every other element keeps its attribute list
C11_AttachmentOnlyAppends ==
    \A p \in Passes :
        walk[p].phase \in {"walking", "done"} =>
            \A i \in DOMAIN unit[p] :
                unit[p][i].k = "jsx_open" =>
                    /\ Cardinality(EntriesAt(p, i)) <= 1
                    /\ EntriesAt(p, i) = {} => walk[p].attrs[i] = unit[p][i].attrs
                    /\ \A k \in EntriesAt(p, i) :
                          walk[p].attrs[i]
                             = unit[p][i].attrs \o Attached(Config(p), walk[p].log[k])

\* a finished pass with aliases on that instrumented an element with attributes
\* of its own and aliases, and an element with no alias to attach
C11_Witness ==
    /\ walk[1].phase = "done" /\ Config(1).generate_aliases
    /\ \E k \in Instrumented(1) :
          /\ unit[1][walk[1].log[k].open].attrs /= << >>
          /\ Len(walk[1].attrs[walk[1].log[k].open])
                = Len(unit[1][walk[1].log[k].open].attrs) + 3
    /\ \E k \in Instrumented(1) :
          /\ walk[1].log[k].aliases = << >>
          /\ Len(walk[1].attrs[walk[1].log[k].open]) = 2
    /\ \E k \in DOMAIN walk[1].log : walk[1].log[k].outcome = "skip_component"

----------------------------------------------------------------------------
(* Properties of the scope filter, the hyphenation and the semantic type.  *)

\* the scope exclusion as the specification words it: the deny-list first, then
\* the allow-list, and no component at all counts as not on the allow-list
ExcludedByScope(name, allow, deny) ==
    IF IsSome(name) /\ Unwrap(name) \in Range(deny) THEN TRUE
    ELSE IF allow /= << >> /\ (IsNone(name) \/ Unwrap(name) \notin Range(allow)) THEN TRUE
    ELSE FALSE

\* C12: should_skip_component excludes a name on the deny-list (also when it is
\* on the allow-list), else excludes when the allow-list is not empty and the
\* name is missing or not on it, else includes; with no enclosing component the
\* deny-list changes nothing
C12_ScopeExclusionReference ==
    Returned("should_skip_component") =>
        /\ Unwrap(ret) = ExcludedByScope(call.component_name, call.config.only_in_components,
                                         call.config.skip_in_components)
        /\ IsNone(call.component_name) =>
              Unwrap(ret) = should_skip_component(
                                [call.config EXCEPT !.skip_in_components = << >>], None)

\* a component on both lists is excluded
C12_Witness ==
    /\ Returned("should_skip_component")
    /\ IsSome(call.component_name)
    /\ SeqContains(call.config.only_in_components, Unwrap(call.component_name))
    /\ SeqContains(call.config.skip_in_components, Unwrap(call.component_name))
    /\ Len(call.config.only_in_components) = 2
    /\ Unwrap(ret) = TRUE

\* the hyphenation as the specification words it, position by position: an
\* alphanumeric character is kept, an uppercase one as the first character of
\* its lowercase form; it is preceded by one separator when an alphanumeric
\* character came before and either the character before it is not alphanumeric
\* or it is an uppercase letter at a word boundary
WordBoundaryAt(s, i) ==
    /\ i > 1 /\ IsUppercase(s[i])
    /\ \/ IsLowercase(s[i - 1])
       \/ IsUppercase(s[i - 1]) /\ i < Len(s) /\ IsLowercase(s[i + 1])
SeparatorBefore(s, i) ==
    /\ \E j \in 1 .. i - 1 : IsAlphanumeric(s[j])
    /\ ~IsAlphanumeric(s[i - 1]) \/ WordBoundaryAt(s, i)
RECURSIVE HyphenationFrom(_, _)
HyphenationFrom(s, i) ==
    IF i > Len(s) THEN << >>
    ELSE (IF IsAlphanumeric(s[i])
          THEN (IF SeparatorBefore(s, i) THEN << "-" >> ELSE << >>)
               \o << Head(CharToLowercase(s[i])) >>
          ELSE << >>)
         \o HyphenationFrom(s, i + 1)
Hyphenation(s) == HyphenationFrom(s, 1)

\* C13: to_kebab_case returns the hyphenation of its input: alphanumerics kept
\* and lowercased, a separator before an uppercase letter exactly at a word
\* boundary, a run of other characters at most one separator, no separator
\* first, last or twice in a row; LoginForm gives login-form, URLInput gives
\* url-input, already-kebab stays
C13_KebabCaseReference ==
    Returned("to_kebab_case") =>
        /\ Unwrap(ret) = Hyphenation(call.s)
        /\ Unwrap(ret) /= << >> => Head(Unwrap(ret)) /= "-" /\ Last(Unwrap(ret)) /= "-"
        /\ \A k \in 1 .. Len(Unwrap(ret)) - 1 :
              ~(Unwrap(ret)[k] = "-" /\ Unwrap(ret)[k + 1] = "-")
        /\ \A k \in DOMAIN Unwrap(ret) : ~IsUppercase(Unwrap(ret)[k])
        /\ call.s = <<"L", "o", "g", "i", "n", "F", "o", "r", "m">> => Unwrap(ret) = <<"l", "o", "g", "i", "n", "-", "f", "o", "r", "m">>
        /\ call.s = <<"U", "R", "L", "I", "n", "p", "u", "t">> => Unwrap(ret) = <<"u", "r", "l", "-", "i", "n", "p", "u", "t">>
        /\ call.s = <<"a", "l", "r", "e", "a", "d", "y", "-", "k", "e", "b", "a", "b">> => Unwrap(ret) = call.s

\* an acronym followed by a word, after a separator that leads the input
C13_Witness ==
    /\ Returned("to_kebab_case")
    /\ call.s = << "-", "B", "B", "a" >>
    /\ Unwrap(ret) = << "b", "-", "b", "a" >>

\* the table of declared input types and the keywords, in the order scanned
TypeTable ==
    << << <<"e", "m", "a", "i", "l">>, <<"e", "m", "a", "i", "l", "-", "i", "n", "p", "u", "t">> >>, << <<"p", "a", "s", "s", "w", "o", "r", "d">>, <<"p", "a", "s", "s", "w", "o", "r", "d", "-", "i", "n", "p", "u", "t">> >>,
       << <<"s", "e", "a", "r", "c", "h">>, <<"s", "e", "a", "r", "c", "h", "-", "i", "n", "p", "u", "t">> >>, << <<"t", "e", "l">>, <<"p", "h", "o", "n", "e", "-", "i", "n", "p", "u", "t">> >>,
       << <<"u", "r", "l">>, <<"u", "r", "l", "-", "i", "n", "p", "u", "t">> >>, << <<"n", "u", "m", "b", "e", "r">>, <<"n", "u", "m", "b", "e", "r", "-", "i", "n", "p", "u", "t">> >>,
       << <<"c", "h", "e", "c", "k", "b", "o", "x">>, <<"c", "h", "e", "c", "k", "b", "o", "x">> >>, << <<"r", "a", "d", "i", "o">>, <<"r", "a", "d", "i", "o">> >>,
       << <<"s", "u", "b", "m", "i", "t">>, <<"s", "u", "b", "m", "i", "t", "-", "b", "u", "t", "t", "o", "n">> >>, << <<"f", "i", "l", "e">>, <<"f", "i", "l", "e", "-", "i", "n", "p", "u", "t">> >>,
       << <<"d", "a", "t", "e">>, <<"d", "a", "t", "e", "-", "i", "n", "p", "u", "t">> >>, << <<"t", "i", "m", "e">>, <<"t", "i", "m", "e", "-", "i", "n", "p", "u", "t">> >> >>
PlaceholderKeywords ==
    << << <<"e", "m", "a", "i", "l">>, <<"e", "m", "a", "i", "l", "-", "i", "n", "p", "u", "t">> >>, << <<"p", "a", "s", "s", "w", "o", "r", "d">>, <<"p", "a", "s", "s", "w", "o", "r", "d", "-", "i", "n", "p", "u", "t">> >>,
       << <<"s", "e", "a", "r", "c", "h">>, <<"s", "e", "a", "r", "c", "h", "-", "i", "n", "p", "u", "t">> >>, << <<"p", "h", "o", "n", "e">>, <<"p", "h", "o", "n", "e", "-", "i", "n", "p", "u", "t">> >>,
       << <<"t", "e", "l">>, <<"p", "h", "o", "n", "e", "-", "i", "n", "p", "u", "t">> >> >>
NameKeywords ==
    << << <<"e", "m", "a", "i", "l">>, <<"e", "m", "a", "i", "l", "-", "i", "n", "p", "u", "t">> >>, << <<"p", "a", "s", "s", "w", "o", "r", "d">>, <<"p", "a", "s", "s", "w", "o", "r", "d", "-", "i", "n", "p", "u", "t">> >> >>
\* the rows of a table whose key is the text, or is contained in the text in
\* any letter case
RowsEqual(table, text) == { k \in DOMAIN table : IsSome(text) /\ table[k][1] = Unwrap(text) }
RowsWithin(table, text) ==
    { k \in DOMAIN table : IsSome(text) /\ Contains(ToLowercase(Unwrap(text)), table[k][1]) }
FirstRole(table, rows) == table[CHOOSE k \in rows : \A h \in rows : k <= h][2]
\* the role of an input by the cascade
RoleOfInput(input_type, placeholder, name) ==
    IF RowsEqual(TypeTable, input_type) /= {}
    THEN FirstRole(TypeTable, RowsEqual(TypeTable, input_type))
    ELSE IF RowsWithin(PlaceholderKeywords, placeholder) /= {}
    THEN FirstRole(PlaceholderKeywords, RowsWithin(PlaceholderKeywords, placeholder))
    ELSE IF RowsWithin(NameKeywords, name) /= {}
    THEN FirstRole(NameKeywords, RowsWithin(NameKeywords, name))
    ELSE <<"i", "n", "p", "u", "t">>
\* the identifier of the input of the call, in the component LoginForm, under
\* the default configuration
InputIdOf(c) ==
    generate_id(DefaultConfig,
        [component_name |-> Some(<<"L", "o", "g", "i", "n", "F", "o", "r", "m">>), file_path |-> s_path, tag_name |-> c.tag_name,
         text_content |-> None, aria_label |-> None, placeholder |-> c.placeholder,
         title |-> None, existing_id |-> None, element_index |-> 1])
IsSuffix(s, t) == Len(s) <= Len(t) /\ SubSeq(t, Len(t) - Len(s) + 1, Len(t)) = s

\* C14: the semantic type of an input is decided by its declared type when the
\* table holds it, else by the first keyword the placeholder contains in any
\* letter case (email, password, search, phone or tel), else by the first the
\* name contains (email, password), else it is input; the identifier of the
\* element ends in -input whatever the role
C14_InputTypeCascade ==
    (Returned("get_semantic_type") /\ call.tag_name = t_input) =>
        /\ Unwrap(ret) = RoleOfInput(call.input_type, call.placeholder, call.name)
        /\ IsSuffix(<<"-", "i", "n", "p", "u", "t">>, InputIdOf(call))
        /\ (call.placeholder = Some(<<"E", "n", "t", "e", "r", " ", "y", "o", "u", "r", " ", "e", "m", "a", "i", "l">>) /\ IsNone(call.input_type)) =>
              /\ InputIdOf(call) = <<"u", "i", "-", "l", "o", "g", "i", "n", "-", "f", "o", "r", "m", "-", "e", "n", "t", "e", "r", "-", "y", "o", "u", "r", "-", "e", "m", "a", "i", "l", "-", "i", "n", "p", "u", "t">>
              /\ Unwrap(ret) = <<"e", "m", "a", "i", "l", "-", "i", "n", "p", "u", "t">>

\* a declared type outside the table, a placeholder with two keywords of which
\* the earlier in the scan decides, and a name that would say otherwise
C14_Witness ==
    /\ Returned("get_semantic_type") /\ call.tag_name = t_input
    /\ call.input_type = Some(<<"t", "e", "x", "t">>)
    /\ call.placeholder = Some(<<"P", "a", "s", "s", "w", "o", "r", "d", " ", "/", " ", "S", "E", "A", "R", "C", "H">>)
    /\ call.name = Some(<<"u", "s", "e", "r", "E", "m", "a", "i", "l">>)
    /\ Unwrap(ret) = <<"p", "a", "s", "s", "w", "o", "r", "d", "-", "i", "n", "p", "u", "t">>

----------------------------------------------------------------------------
(* Properties of the runtime registry.                                     *)

\* task t answers its lookup in this step
AnswersLookup(t) ==
    task[t].op = "get_element" /\ task[t].pc = "locked" /\ task'[t].pc = "done"

\* C15: a lookup by identifier answers with the element registered under
\* exactly that identifier when a registration of it is in effect, and with
\* not-found when none is (none was made, or unregister_element removed it and
\* no register_element followed); the lookup leaves the registry as it was
C15_LookupReflectsRegistry ==
    [][ \A t \in Tasks :
          AnswersLookup(t) =>
             /\ task'[t].reply =
                   (IF IsSome(registered[task[t].id])
                    THEN [status |-> "found", data |-> registered[task[t].id]]
                    ELSE [status |-> "not_found", data |-> << >>])
             /\ task'[t].reply.status = "found" =>
                   Unwrap(task'[t].reply.data).id = task[t].id
             /\ elements' = elements /\ registered' = registered ]_vars

\* one task has unregistered an identifier, the other has looked it up and got
\* not-found, while the other identifier is still registered
C15_Witness ==
    /\ task[1].op = "unregister_element" /\ task[1].pc = "done"
    /\ task[2].op = "get_element" /\ task[2].pc = "done" /\ task[2].id = task[1].id
    /\ task[2].reply.status = "not_found"
    /\ IsNone(registered[task[1].id])
    /\ Len(elements) = 1 /\ IsSome(elements[1].label)

----------------------------------------------------------------------------
(* Properties of the collision policy and of the order of the walk.        *)

\* the name of the innermost declaration around the token at i that names a
\* component
InnermostComponent(u, i) ==
    IF Enclosing(u, i) = {} THEN None
    ELSE Some(u[CHOOSE j \in Enclosing(u, i) : \A h \in Enclosing(u, i) : h <= j].name)
\* the element opened at i passes the tag, skip-existing and scope checks
PassesChecks(u, config, i) ==
    /\ u[i].name_kind = "ident" /\ IsLowercase(Head(u[i].tag))
    /\ u[i].tag \in Range(config.elements)
    /\ ~(config.skip_existing
         /\ \E a \in DOMAIN u[i].attrs : u[i].attrs[a].name = config.id_attribute)
    /\ ~ExcludedByScope(InnermostComponent(u, i), config.only_in_components,
                        config.skip_in_components)
\* pass p hands one element to process_jsx_element in this step
NewEntry(p) == Len(walk'[p].log) = Len(walk[p].log) + 1
NewestEntry(p) == walk'[p].log[Len(walk'[p].log)]

\* C16: every element that passes the tag, skip-existing and scope checks is
\* instrumented, collision or not; its final identifier is the generated one
\* when that is not yet in the issued set, and the generated one, the separator
\* and the element's own positional counter value when it is
C16_CollisionNeverDrops ==
    [][ NewEntry(1) =>
          /\ PassesChecks(unit[1], Config(1), NewestEntry(1).open)
                <=> NewestEntry(1).outcome = "instrument"
          /\ NewestEntry(1).outcome = "instrument" =>
                /\ SeqContains(walk'[1].attrs[NewestEntry(1).open],
                               StrAttr(Config(1).id_attribute, NewestEntry(1).final_id))
                /\ NewestEntry(1).index = visitor'[1].element_counters[NewestEntry(1).tag]
                /\ NewestEntry(1).final_id =
                      IF NewestEntry(1).generated_id \in visitor[1].processed_ids
                      THEN NewestEntry(1).generated_id \o s_dash
                              \o ToDecimal(NewestEntry(1).index)
                      ELSE NewestEntry(1).generated_id ]_vars

\* an element whose generated identifier was already issued carries the
\* identifier with its counter value
C16_Witness ==
    /\ walk[1].phase = "done"
    /\ \E k \in Instrumented(1) :
          /\ walk[1].log[k].final_id /= walk[1].log[k].generated_id
          /\ walk[1].log[k].generated_id \in visitor[1].processed_ids
          /\ walk[1].log[k].final_id \notin visitor[1].processed_ids
    /\ \E k \in DOMAIN walk[1].log : walk[1].log[k].outcome = "not_configured"

\* C17: at every point of a pass the issued set holds exactly the final
\* identifiers attached so far, the disambiguated ones included
C17_IssuedSetIsFinalIds ==
    \A p \in Passes :
        walk[p].phase \in {"walking", "done"} =>
            visitor[VisitorOf(p)].processed_ids
               = { walk[p].log[k].final_id : k \in Instrumented(p) }

\* the elements that lie inside the element opened at i
Descendants(u, i) == { j \in i + 1 .. MatchClose(u, i) - 1 : u[j].k = "jsx_open" }
\* the log entry h stands for an element handled before that of entry k, with
\* the smaller index when both are instrumented elements of one tag
HandledBefore(p, h, k) ==
    /\ h < k
    /\ (h \in Instrumented(p) /\ k \in Instrumented(p)
        /\ walk[p].log[h].tag = walk[p].log[k].tag) =>
           walk[p].log[h].index < walk[p].log[k].index

\* C19: when an element is considered for instrumentation every element inside
\* it has been considered already; an instrumented descendant of the tag of an
\* instrumented element has the smaller positional index
C19_BottomUp ==
    \A p \in Passes :
        walk[p].phase \in {"walking", "done"} =>
            \A k \in DOMAIN walk[p].log :
                \A j \in Descendants(unit[p], walk[p].log[k].open) :
                    \E h \in DOMAIN walk[p].log :
                        walk[p].log[h].open = j /\ HandledBefore(p, h, k)

\* an instrumented element with two instrumented descendants of its tag
C19_Witness ==
    /\ walk[1].phase = "done"
    /\ \E k \in Instrumented(1) :
          /\ walk[1].log[k].index = 3
          /\ Cardinality({ h \in Instrumented(1) :
                             /\ walk[1].log[h].open \in Descendants(unit[1], walk[1].log[k].open)
                             /\ walk[1].log[h].tag = walk[1].log[k].tag }) = 2

\* what process_jsx_element reads off the element of the log entry e in the
\* source tree, where no element carries an attribute added by the pass
SourceContext(p, e) ==
    ElementContext(File(p), [component_stack |-> e.component], unit[p], e.open,
                   unit[p][e.open].attrs)

\* C20: the generated identifier, the semantic type and the aliases of an
\* instrumented element are those computed on the source tree: the attributes
\* the pass has attached to the elements inside it change none of them
C20_ChildrenDoNotInfluence ==
    \A k \in Instrumented(1) :
        /\ walk[1].log[k].generated_id
              = generate_id(Config(1), IdContext(SourceContext(1, walk[1].log[k]),
                                                 walk[1].log[k].index))
        /\ walk[1].log[k].semantic_type
              = get_semantic_type(SourceContext(1, walk[1].log[k]).tag_name,
                                  SourceContext(1, walk[1].log[k]).input_type,
                                  SourceContext(1, walk[1].log[k]).placeholder,
                                  SourceContext(1, walk[1].log[k]).name)
        /\ walk[1].log[k].aliases
              = IF Config(1).generate_aliases
                THEN generate_aliases(Config(1), AliasContext(SourceContext(1, walk[1].log[k])))
                ELSE << >>

\* an instrumented element with text of its own and of an element inside it,
\* which the pass has instrumented before
C20_Witness ==
    /\ walk[1].phase = "done"
    /\ \E k \in Instrumented(1) :
          /\ walk[1].log[k].aliases /= << >>
          /\ \E j \in Descendants(unit[1], walk[1].log[k].open) :
                /\ Len(walk[1].attrs[j]) > Len(unit[1][j].attrs)
                /\ unit[1][j + 1].k = "jsx_text"
                /\ Contains(Unwrap(SourceContext(1, walk[1].log[k]).text_content),
                            unit[1][j + 1].value)

----------------------------------------------------------------------------
(* Properties of the descriptor.                                           *)

\* the sources of the descriptor in their order of priority, and the first of
\* them that is present and not empty once normalized
DescriptorSources(ctx) ==
    << ctx.existing_id, ctx.text_content, ctx.aria_label, ctx.placeholder, ctx.title >>
Usable(source) == IsSome(source) /\ normalize_text(Unwrap(source)) /= << >>
FirstUsable(sources) ==
    IF \E k \in DOMAIN sources : Usable(sources[k])
    THEN << normalize_text(Unwrap(sources[
               CHOOSE k \in DOMAIN sources :
                   Usable(sources[k]) /\ \A h \in 1 .. k - 1 : ~Usable(sources[h])])) >>
    ELSE << >>
\* the identifier with that descriptor: prefix, component, file, descriptor, suffix
IdWithFirstUsable(config, ctx) ==
    Join(<< config.id_prefix >>
         \o (IF config.include_component_name /\ IsSome(ctx.component_name)
             THEN << to_kebab_case(Unwrap(ctx.component_name)) >> ELSE << >>)
         \o (IF config.include_file_path
             THEN << to_kebab_case(extract_file_name(ctx.file_path)) >> ELSE << >>)
         \o FirstUsable(DescriptorSources(ctx))
         \o << get_element_type_suffix(ctx.tag_name) >>, s_dash)

\* C18: the descriptor of an identifier is the first source, in the order id,
\* text, aria-label, placeholder, title, that is not empty once normalized; a
\* source that is present but empty is passed over for the next one; with no
\* such source the identifier has no descriptor part
C18_DescriptorFirstNonEmpty ==
    (Returned("generate_id") /\ ~call.config.hash_ids) =>
        Unwrap(ret) = IdWithFirstUsable(call.config, call.id_ctx)


----------------------------------------------------------------------------
(* Scope tracking.                                                         *)

\* the names of the declarations that name a component, were entered before
\* the token at pc and are not yet left when the walk stands at pc, outermost
\* first
RECURSIVE OpenScopes(_, _, _)
OpenScopes(u, j, pc) ==
    IF j >= pc THEN << >>
    ELSE (IF IsOpener(u[j]) /\ NamesComponent(u[j]) /\ MatchClose(u, j) >= pc
          THEN << u[j].name >> ELSE << >>) \o OpenScopes(u, j + 1, pc)

\* C21: the component stack is balanced. A name is on the stack exactly from
\* the entry of its declaration (a function declaration, a variable declarator
\* initialised with an arrow or function expression, a class declaration, each
\* with a name that starts with an uppercase letter) to the return from it; so
\* every element handed to process_jsx_element sees the name of its innermost
\* enclosing such declaration, none if there is none, and the stack is empty
\* when the pass is over
C21_ScopeIsBalancedStack ==
    \A p \in Passes :
        /\ walk[p].phase = "walking" =>
              visitor[p].component_stack = OpenScopes(unit[p], 1, walk[p].pc)
        /\ walk[p].phase = "done" => visitor[p].component_stack = << >>
        /\ walk[p].phase \in {"walking", "done"} =>
              \A k \in DOMAIN walk[p].log :
                  walk[p].log[k].component
                      = InnermostComponent(unit[p], walk[p].log[k].open)

\* a finished pass that met an element inside a component nested in another
\* one, then an element of the outer component, an element inside a declaration
\* that names no component, and after the declarations an element that sees none
C21_Witness ==
    /\ walk[1].phase = "done" /\ visitor[1].component_stack = << >>
    /\ \E j \in DOMAIN unit[1] :
          /\ unit[1][j].k \in {"fn_decl", "var_declarator", "class_decl"}
          /\ ~NamesComponent(unit[1][j])
          /\ \E k \in DOMAIN walk[1].log :
                j < walk[1].log[k].open /\ walk[1].log[k].open < MatchClose(unit[1], j)
    /\ \E k, l, m \in DOMAIN walk[1].log :
          /\ k < l /\ l < m
          /\ Cardinality(Enclosing(unit[1], walk[1].log[k].open)) = 2
          /\ walk[1].log[k].component = Some(c_NotThis)
          /\ walk[1].log[l].component = Some(c_OnlyThis)
          /\ IsNone(walk[1].log[m].component)

----------------------------------------------------------------------------
(* Synonym expansion.                                                      *)

\* the groups of the table that have a trigger occurring in the phrase
MatchingGroups(text) ==
    { g \in DOMAIN synonym_map :
        \E t \in Range(synonym_map[g].triggers) :
            \E a, b \in 0 .. Len(text) : a <= b /\ SubSeq(text, a + 1, b) = t }
FirstMatchingGroup(text) ==
    CHOOSE g \in MatchingGroups(text) : \A h \in MatchingGroups(text) : g <= h
Without(seq, x) == SelectSeq(seq, LAMBDA s : s /= x)
\* the synonyms of a phrase by the first matching group
SynonymsOf(text) ==
    IF MatchingGroups(text) = {} THEN << >>
    ELSE Without(synonym_map[FirstMatchingGroup(text)].all_synonyms, text)

----------------------------------------------------------------------------
(* The alias list.                                                         *)

\* the candidates of one source, normalized: none when the source is absent
SourceCandidates(source) ==
    IF IsSome(source) THEN << normalize_for_alias(Unwrap(source)) >> ELSE << >>
\* the candidates in the order of their sources: the text, the synonyms of the
\* text, then aria-label, placeholder, title, name
CandidatesInOrder(ctx) ==
    SourceCandidates(ctx.text_content)
    \o (IF IsSome(ctx.text_content)
        THEN SynonymsOf(normalize_for_alias(Unwrap(ctx.text_content))) ELSE << >>)
    \o SourceCandidates(ctx.aria_label) \o SourceCandidates(ctx.placeholder)
    \o SourceCandidates(ctx.title) \o SourceCandidates(ctx.name)
\* the candidates that are not empty and equal no earlier candidate
FirstOccurrences(seq) ==
    LET kept == { i \in DOMAIN seq : seq[i] /= << >> /\ \A j \in 1 .. i - 1 : seq[j] /= seq[i] }
        RECURSIVE InOrder(_)
        InOrder(i) == IF i > Len(seq) THEN << >>
                      ELSE (IF i \in kept THEN << seq[i] >> ELSE << >>) \o InOrder(i + 1)
    IN  InOrder(1)

\* C23: the alias list holds no empty string and no alias twice; it is the
\* candidates in the order of their sources (text, synonyms of the text,
\* aria-label, placeholder, title, name), each one that is empty or equal to an
\* earlier one left out, cut to the configured maximum: what the cut drops comes
\* from the later sources
C23_AliasOrderNoDuplicates ==
    Returned("generate_aliases") =>
        /\ \A i \in DOMAIN Unwrap(ret) : Unwrap(ret)[i] /= << >>
        /\ \A i, j \in DOMAIN Unwrap(ret) : i /= j => Unwrap(ret)[i] /= Unwrap(ret)[j]
        /\ Unwrap(ret) = Take(FirstOccurrences(CandidatesInOrder(call.alias_ctx)),
                              call.config.max_aliases)

\* a call with every source given, where the aria-label and the title repeat
\* the text, the name repeats a synonym, and the cut drops the placeholder
C23_Witness ==
    /\ Returned("generate_aliases")
    /\ call.alias_ctx.text_content = Some(<<"S", "i", "g", "n", " ", "I", "n">>)
    /\ call.alias_ctx.aria_label = Some(<<"s", "i", "g", "n", " ", "i", "n">>)
    /\ call.alias_ctx.placeholder = Some(<<"C", "l", "i", "c", "k", " ", "t", "o", " ", "s", "i", "g", "n", " ", "i", "n">>)
    /\ call.alias_ctx.title = Some(<<"S", "i", "g", "n", " ", "I", "n">>)
    /\ call.alias_ctx.name = Some(<<"l", "o", "g", "i", "n">>)
    /\ call.config.max_aliases = 5
    /\ Unwrap(ret) = << <<"s", "i", "g", "n", " ", "i", "n">>, <<"s", "i", "g", "n", "i", "n">>, <<"l", "o", "g", " ", "i", "n">>, <<"l", "o", "g", "i", "n">>, <<"a", "u", "t", "h", "e", "n", "t", "i", "c", "a", "t", "e">> >>
    /\ Len(FirstOccurrences(CandidatesInOrder(call.alias_ctx))) = 6

----------------------------------------------------------------------------
(* The registry under concurrent requests.                                 *)

\* the entries of the registry under one identifier, in order
EntriesOf(id) == SelectSeq(elements, LAMBDA e : e.id = id)
\* task t reads the registry: it holds the read access and has not answered
Reading(t) == task[t].op \in {"get_element", "list_elements"} /\ task[t].pc = "locked"
\* task t has removed the old entry of the identifier it registers and not yet
\* pushed the new one
BetweenRemovalAndInsertion(t) == task[t].op = "register_element" /\ task[t].pc = "retained"

\* C24: whatever the interleaving of register_element, unregister_element,
\* list and lookup calls, the registry holds at most one element per
\* identifier; once a call has returned, the entry under an identifier is the
\* element registered last (a registration replaces the entry that was there)
\* or none after unregister_element; and no task reads the registry while a
\* registration stands between the removal of the old entry and the insertion
\* of the new one
C24_OneEntryPerIdentifier ==
    /\ \A i, j \in DOMAIN elements : i /= j => elements[i].id /= elements[j].id
    /\ (\A t \in Tasks : ~BetweenRemovalAndInsertion(t)) =>
          \A id \in ElementIds :
              EntriesOf(id) = (IF IsSome(registered[id]) THEN << Unwrap(registered[id]) >>
                               ELSE << >>)
    /\ \A t, s \in Tasks : Reading(t) => ~BetweenRemovalAndInsertion(s) /\ lock.writer = 0

\* a registration of an identifier that was present has removed the old entry
\* and not yet pushed the new one, the other identifier is still registered,
\* and the other task, a list request, waits for the registry
C24_Witness ==
    /\ BetweenRemovalAndInsertion(1)
    /\ IsSome(registered[task[1].id]) /\ Unwrap(registered[task[1].id]) /= task[1].element
    /\ EntriesOf(task[1].id) = << >>
    /\ Len(elements) = 1
    /\ task[2].op = "list_elements" /\ task[2].pc = "start"

----------------------------------------------------------------------------
(* Action invocations.                                                     *)

\* task t answers its action invocation in this step
AnswersAction(t) ==
    task[t].op = "element_action" /\ task[t].pc = "start" /\ task'[t].pc = "done"

\* C25: every action invocation against an element identifier emits to the
\* frontend window one "ui-bridge-action" event that carries the element
\* identifier, the action name and the params, returns a success
\* acknowledgement, and leaves the registry as it was
C25_ActionEmitsEvent ==
    [][ \A t \in Tasks :
          AnswersAction(t) =>
             /\ IsSome(window')
             /\ window' /= window
             /\ Last(Unwrap(window')) =
                   [event |-> <<"u", "i", "-", "b", "r", "i", "d", "g", "e", "-", "a", "c", "t", "i", "o", "n">>,
                    payload |-> [elementId |-> task[t].id,
                                 action |-> task[t].request.action,
                                 params |-> task[t].request.params]]
             /\ task'[t].reply.status = "ok"
             /\ elements' = elements /\ registered' = registered ]_vars
====
